---- MODULE Spec2Model ----
(***************************************************************************)
(* Consensus persistence store (sequencer/src/persistence/sql.rs) and      *)
(* epoch membership coordinator (crates/hotshot/types/src/                 *)
(* epoch_membership.rs) of the Espresso sequencer, as state machines.      *)
(*                                                                         *)
(* SpecStore    : two concurrent callers of append_decided_leaves, row     *)
(*                errors in the leaf query and process crashes.            *)
(* SpecStoreSeq : one caller, the artifact appenders and process crashes.  *)
(* SpecStoreOne : one caller, row errors and process crashes.              *)
(* SpecCoord    : the coordinator's callers and its catchup tasks.         *)
(* SpecCaller, SpecCallerFair, SpecDrb : one epoch asked for at a time,    *)
(*                the same with fair scheduling, and the same with failing *)
(*                fetches of the DRB result.                               *)
(* SpecActed, SpecArtifacts, SpecPrune, SpecMigrate, SpecEpochInfo : the    *)
(*                voted-view register, the artifact rows with their data,  *)
(*                pruning under every retention setting, the migrations of *)
(*                the legacy tables, and the epoch table.                  *)
(***************************************************************************)
EXTENDS Integers, Sequences, FiniteSets

(* ------------------------------ bounds --------------------------------- *)

\* Highest view number a leaf or artifact is given.
MaxView == 2

\* Number of artifact rows (VID, DA, proposal, state cert) appended in a run.
MaxArtifacts == 1

\* Highest epoch a membership is asked for.
MaxEpoch == 4

\* Number of catchup tasks spawned in a run.
MaxTasks == 3

(* ----------------------------- constants ------------------------------ *)

\* ConsensusPruningOptions: the default of target_retention, in views.
DefaultTargetRetention == 302000

\* ConsensusPruningOptions: the default of minimum_retention, in views.
DefaultMinimumRetention == 130000

\* ViewNumber::genesis(): the view whose payload is known to be empty.
GenesisView == 0

(* ----------------------------- store state ----------------------------- *)

VARIABLES
    anchor_leaf2,           \* rows [view, height]: decided leaf + its QC, keyed by view
    vid_share2,             \* views holding a VID share row
    da_proposal2,           \* views holding a DA proposal row
    quorum_proposals2,      \* views holding a quorum proposal row
    quorum_certificate2,    \* views holding a QC row
    state_cert,             \* rows [view, epoch]
    finalized_state_cert,   \* rows [epoch, view], keyed by epoch
    event_stream,           \* last_processed_view of row id 1, NoView when the row is absent
    gc_opt,                 \* ConsensusPruningOptions of the Persistence
    pc,                     \* per caller: position inside append_decided_leaves
    gen,                    \* per caller: locals of generate_decide_events
    ret,                    \* per caller: result of its last finished call
    appended,               \* history of the leaves committed to anchor_leaf2 (see NoAppended)
    handled,                \* history: views of the leaves in Decide events the consumer handled
    rowError,               \* history: a row error has cut a leaf query short
    rowErrors,              \* whether this run injects row errors into the leaf query
    artBudget               \* artifact rows still to be appended

storeVars == <<anchor_leaf2, vid_share2, da_proposal2, quorum_proposals2,
               quorum_certificate2, state_cert, finalized_state_cert, event_stream,
               gc_opt, pc, gen, ret, appended, handled, rowError,
               rowErrors, artBudget>>

dbVars == <<anchor_leaf2, vid_share2, da_proposal2, quorum_proposals2,
            quorum_certificate2, state_cert, finalized_state_cert, event_stream>>

(* -------------------------- coordinator state -------------------------- *)

VARIABLES
    stake_tables,           \* epochs for which membership.has_stake_table holds
    randomized,             \* epochs for which membership.has_randomized_stake_table holds
    catchup_map,            \* entries [epoch, tx]: the receiver stored for epoch, by sending task
    calls,                  \* epochs of the callers between their membership check and the map lock
    tasks,                  \* per task: epoch, position, result of catchup, stack of async frames
    drb_results,            \* history: per epoch, the tasks that applied add_drb_result
    call,                   \* the caller whose results are observed: [fn, epoch, pc, ret]
    storage_add_drb_result_fn,  \* the storage callback: "None", or how a call of it ends
    drb_storage,            \* epochs whose DRB result the storage callback has persisted
    drbErrors,              \* whether this run lets get_epoch_drb fail
    epoch_drbs,             \* per epoch: <<>> or <<the DRB result add_drb_result gave the membership>>
    drb_calls,              \* history: the calls of the storage callback, [epoch, drb, task]
    membership_readers      \* the tasks that hold a read guard of the membership lock

coordVars == <<stake_tables, randomized, catchup_map, calls, tasks, drb_results,
               call, storage_add_drb_result_fn, drb_storage, drbErrors, epoch_drbs,
               drb_calls, membership_readers>>

\* What the coordinator's map and membership steps leave alone.
callVars == <<call, storage_add_drb_result_fn, drb_storage, drbErrors, epoch_drbs,
              drb_calls, membership_readers>>

(* ------------------- further tables and their callers ------------------ *)

VARIABLES
    highest_voted_view,     \* view of row id 0 of highest_voted_view, NoView when the row is absent
    acted,                  \* history: the views recorded with Propose or Vote, committed
    artifact_rows,          \* per artifact table: its rows [view, hash, data] (the runs that follow the data)
    returned,               \* the last call on these tables that returned: [op, arg, status, value]
    pruned,                 \* history: cur_view and measured usage of the last prune(cur_view) call, and their count
    legacy,                 \* per legacy table: the views of its rows
    epoch_migration,        \* per legacy table: [completed, migrated_rows]
    mig,                    \* the running migration: table, position, offset, rows of its batch, result
    epoch_drb_and_root,     \* rows [epoch, drb_result, block_header, stake]; <<>> is NULL, <<x>> a value
    epoch_info              \* <<>> before the first load_start_epoch_info, then <<vector returned>>

sideVars == <<highest_voted_view, acted, artifact_rows, returned, pruned, legacy,
              epoch_migration, mig, epoch_drb_and_root, epoch_info>>

vars == <<storeVars, coordVars, sideVars>>

Procs == {"p1", "p2"}

NoView == 0 - 1

Views == 0 .. MaxView

MaxHeight == MaxView + 1

Heights == 0 .. MaxHeight

StateCertEpochs == {1, 2}

\* The pruning configurations explored: (target_retention, minimum_retention, target_usage).
GcConfigs ==
    { [target_retention |-> 2, minimum_retention |-> 1, target_usage |-> 1],
      [target_retention |-> DefaultTargetRetention,
        minimum_retention |-> DefaultMinimumRetention, target_usage |-> 1] }

\* Storage usage as measured by the usage query, relative to target_usage = 1.
Usages == {0, 2}

\* The locals of generate_decide_events before its first read; `deleted` is history:
\* whether a write transaction of this invocation has deleted a row.
NoGen ==
    [last_processed_view |-> NoView, leaves |-> <<>>, state_certs |-> {},
     vid_shares |-> {}, da_proposals |-> {}, deleted |-> FALSE]

\* The history of appended leaves: the newest leaf's view and height, and the maximum
\* view of the longest consecutive-height prefix of all appended leaves (gap: a
\* height was skipped, the prefix has ended).
NoAppended == [view |-> NoView, height |-> NoView, prefix |-> NoView, gap |-> FALSE]

(* ----------------------------- pure helpers ---------------------------- *)

SeqToSet(s) == { s[i] : i \in 1 .. Len(s) }

RowViews(rows) == { r.view : r \in rows }

\* No row of the tables that hold leaves and artifacts is deleted in this step: every
\* view that has a row keeps one (an upsert replaces the row of its view).
RowsKept ==
    /\ RowViews(anchor_leaf2) \subseteq RowViews(anchor_leaf2')
    /\ vid_share2 \subseteq vid_share2'
    /\ da_proposal2 \subseteq da_proposal2'
    /\ quorum_proposals2 \subseteq quorum_proposals2'
    /\ quorum_certificate2 \subseteq quorum_certificate2'
    /\ RowViews(state_cert) \subseteq RowViews(state_cert')

MaxOf(S) == CHOOSE x \in S : \A y \in S : y <= x

MinOf(S) == CHOOSE x \in S : \A y \in S : x <= y

\* u64::saturating_sub
SaturatingSub(a, b) == IF a >= b THEN a - b ELSE 0

\* INSERT ... ON CONFLICT DO NOTHING: a row already stored under the key is kept.
InsertOrIgnore(table, rows) ==
    table \cup { r \in rows : r.view \notin RowViews(table) }

\* tx.upsert(table, cols, ["view"], rows): insert, replacing the row with the same key.
Upsert(table, rows) == { r \in table : r.view \notin RowViews(rows) } \cup rows

\* The BTreeMap the state certs of a range are collected into, keyed by epoch: of
\* the rows of one epoch the last one read stays.
ByEpoch(rows) ==
    { r \in rows : \A o \in rows : o.epoch = r.epoch => o.view <= r.view }

UpsertByEpoch(table, rows) ==
    { r \in table : r.epoch \notin { x.epoch : x \in rows } } \cup rows

\* SELECT ... ORDER BY view
RECURSIVE OrderByView(_)
OrderByView(rows) ==
    IF rows = {} THEN <<>>
    ELSE LET first == CHOOSE r \in rows : \A o \in rows : r.view <= o.view
         IN  <<first>> \o OrderByView(rows \ {first})

Reverse(s) == [ i \in 1 .. Len(s) |-> s[Len(s) + 1 - i] ]

(* ------------------------ generate_decide_events ----------------------- *)

\* Variant of from_view that starts at last_processed_view itself.
QueryFromViewInclusive(last_processed_view) ==
    IF last_processed_view = NoView THEN 0 ELSE last_processed_view

\* from_view of the leaf query: the view after last_processed_view, or 0 without a marker.
QueryFromView(last_processed_view) ==
    IF last_processed_view = NoView THEN 0 ELSE last_processed_view + 1

\* SELECT leaf, qc FROM anchor_leaf2 WHERE view >= $1 ORDER BY view
SelectLeaves(table, from_view) == OrderByView({ r \in table : r.view >= from_view })

\* Variant of the while-loop without the height check.
RECURSIVE WalkRowsNoGap(_, _, _)
WalkRowsNoGap(rows, parent, leaves) ==
    IF rows = <<>> THEN leaves
    ELSE WalkRowsNoGap(Tail(rows), Head(rows).height, Append(leaves, Head(rows)))

\* The while-loop over the rows: push leaves while each height is parent + 1.
RECURSIVE WalkRows(_, _, _)
WalkRows(rows, parent, leaves) ==
    IF rows = <<>> THEN leaves
    ELSE LET leaf == Head(rows)
         IN  IF parent # NoView /\ leaf.height # parent + 1
             THEN leaves
             ELSE WalkRows(Tail(rows), leaf.height, Append(leaves, leaf))

\* The consecutive chain collected from the first `fetched` rows of the query
\* (a row error ends the stream early: fetched < Len(rows)).
CollectLeaves(table, last_processed_view, fetched) ==
    WalkRows(SubSeq(SelectLeaves(table, QueryFromView(last_processed_view)), 1, fetched),
             NoView, <<>>)

ChainFromView(leaves) == leaves[1].view

ChainToView(leaves) == leaves[Len(leaves)].view

\* WHERE view >= $1 AND view <= $2
InRange(view, from_view, to_view) == view >= from_view /\ view <= to_view

\* DELETE FROM <table> WHERE view >= $1 AND view <= $2 (tables holding bare views)
DeleteRange(table, from_view, to_view) ==
    { v \in table : ~InRange(v, from_view, to_view) }

\* DELETE FROM state_cert WHERE view >= $1 AND view <= $2
DeleteCertRange(table, from_view, to_view) ==
    { r \in table : ~InRange(r.view, from_view, to_view) }

\* DELETE FROM anchor_leaf2 WHERE view >= $1 AND view < $2
DeleteLeaves(table, from_view, to_view) ==
    { r \in table : ~(r.view >= from_view /\ r.view < to_view) }

\* Variant of the event that keeps the leaves in the order of the query.
DecideEventChronological(leaves) ==
    [ view_number |-> ChainToView(leaves),
      leaf_chain  |-> [ i \in 1 .. Len(leaves) |-> leaves[i].view ],
      qc          |-> leaves[Len(leaves)].view,
      block_size  |-> "None" ]

\* The Decide event handed to the consumer: leaves in reverse chronological order,
\* the QC stored with the last leaf, view_number = to_view, block_size = None.
DecideEvent(leaves) ==
    [ view_number |-> ChainToView(leaves),
      leaf_chain  |-> Reverse([ i \in 1 .. Len(leaves) |-> leaves[i].view ]),
      qc          |-> leaves[Len(leaves)].view,
      block_size  |-> "None" ]

\* Variant of the payload fill that takes the empty payload whenever the DA proposal
\* is missing.
BlockPayloadOrEmpty(view, da_proposals) ==
    IF view \in da_proposals THEN "da" ELSE "empty"

\* The payload of a leaf in a Decide event: that of the DA proposal of its view when
\* one was read, the empty payload at the genesis view, else left unfilled.
BlockPayload(view, da_proposals) ==
    IF view \in da_proposals THEN "da"
    ELSE IF view = GenesisView THEN "empty"
    ELSE "unfilled"

\* The LeafInfo of one leaf.
LeafInfo(leaf, vid_shares, da_proposals) ==
    [ leaf      |-> leaf.view,
      payload   |-> BlockPayload(leaf.view, da_proposals),
      vid_share |-> IF leaf.view \in vid_shares THEN <<leaf.view>> ELSE <<>> ]

\* The leaf chain of a Decide event with all it carries, in reverse chronological
\* order.
LeafChain(leaves, vid_shares, da_proposals) ==
    Reverse([ i \in 1 .. Len(leaves) |-> LeafInfo(leaves[i], vid_shares, da_proposals) ])

\* Variant of append_decided_leaves that propagates the result with `?`.
AppendResultPropagated(gen_result) == gen_result

\* What append_decided_leaves returns for a result of generate_decide_events / prune.
AppendResult(gen_result) == "Ok"

\* leaf.unfill_block_payload(): the leaf as it is serialized into anchor_leaf2.
UnfillBlockPayload(leaf) == [view |-> leaf.view, height |-> leaf.height]

\* Whether a stored row's leaf carries its block payload.
PayloadEmbedded(row) == "payload" \in DOMAIN row

(* ------------------------------- pruning ------------------------------- *)

\* prune_to_view on one table of rows keyed by view.
PruneRows(table, view) ==
    IF view = 0 THEN table ELSE { r \in table : ~(r.view < view) }

\* prune_to_view on one table of bare views.
PruneViews(table, view) ==
    IF view = 0 THEN table ELSE { v \in table : ~(v < view) }

\* Variant of the cutoff that ignores the measured usage.
PruneCutoffTargetOnly(cur_view, opt, usage) ==
    SaturatingSub(cur_view, opt.target_retention)

\* The view prune() prunes to: target retention first, minimum retention when the
\* measured usage exceeds target_usage.
PruneCutoff(cur_view, opt, usage) ==
    LET target == SaturatingSub(cur_view, opt.target_retention)
        minimum == SaturatingSub(cur_view, opt.minimum_retention)
    IN  IF usage > opt.target_usage
        THEN IF minimum > target THEN minimum ELSE target
        ELSE target

(* ------------------------------- inputs -------------------------------- *)

\* A leaf following a leaf at (view, height): the next view or one view skipped, the
\* next height or one height skipped (a decide this node missed).
NextLeaves(view, height) ==
    { [view |-> v, height |-> h, payload |-> TRUE] :
        v \in { x \in Views : x = view + 1 \/ x = view + 2 },
        h \in { x \in Heights : x = height + 1 \/ x = height + 2 } }

\* The ascending leaf chains a call may carry: empty, one leaf or two leaves, each
\* decided after everything appended before, each with its block payload attached.
LeafChains ==
    {<<>>}
    \cup { <<a>> : a \in NextLeaves(appended.view, appended.height) }
    \cup { <<a, b>> : a \in NextLeaves(appended.view, appended.height),
                      b \in [view : Views, height : Heights, payload : {TRUE}] }

ValidChain(chain) ==
    Len(chain) = 2 => chain[2] \in NextLeaves(chain[1].view, chain[1].height)

\* The history after one more leaf.
RecordLeaf(hist, leaf) ==
    LET skipped == hist.height # NoView /\ leaf.height # hist.height + 1
    IN  [ view   |-> leaf.view,
          height |-> leaf.height,
          prefix |-> IF hist.gap \/ skipped THEN hist.prefix ELSE leaf.view,
          gap    |-> hist.gap \/ skipped ]

RECURSIVE RecordChain(_, _)
RecordChain(hist, chain) ==
    IF chain = <<>> THEN hist
    ELSE RecordChain(RecordLeaf(hist, Head(chain)), Tail(chain))

\* The decide view handed to append_decided_leaves (prune is its only reader, and
\* the value is drawn where prune reads it): the newest leaf's view or two views later.
DecideViews ==
    LET base == IF appended.view = NoView THEN 0 ELSE appended.view
    IN  {base, base + 2}

\* The views whose artifacts consensus is persisting: those after the newest decided
\* leaf. They lie beyond the range of every decide event in progress, so an append
\* commutes with the steps of a running call; the appends are taken between calls.
ArtifactViews == { v \in Views : v = appended.view + 1 \/ v = appended.view + 2 }

CanAppendArtifact == artBudget > 0 /\ \A p \in Procs : pc[p] = "idle"

(* ------------------------------- actions ------------------------------- *)

\* The store's tables empty and no call running, whatever the pruning options.
InitStoreRows(row_errors, artifacts) ==
    /\ anchor_leaf2 = {}
    /\ vid_share2 = {}
    /\ da_proposal2 = {}
    /\ quorum_proposals2 = {}
    /\ quorum_certificate2 = {}
    /\ state_cert = {}
    /\ finalized_state_cert = {}
    /\ event_stream = NoView
    /\ pc = [p \in Procs |-> "idle"]
    /\ gen = [p \in Procs |-> NoGen]
    /\ ret = [p \in Procs |-> "none"]
    /\ appended = NoAppended
    /\ handled = {}
    /\ rowError = FALSE
    /\ rowErrors = row_errors
    /\ artBudget = artifacts

InitStoreWith(row_errors, artifacts) ==
    /\ InitStoreRows(row_errors, artifacts)
    /\ gc_opt \in GcConfigs

\* Return from append_decided_leaves with `result`.
Return(p, result) ==
    /\ pc' = [pc EXCEPT ![p] = "idle"]
    /\ gen' = [gen EXCEPT ![p] = NoGen]
    /\ ret' = [ret EXCEPT ![p] = result]

\* append_decided_leaves: the leaves and QCs are upserted and committed in their own
\* transaction; event generation follows.
AppendDecidedLeaves(p) ==
    /\ pc[p] = "idle"
    /\ \E chain \in LeafChains :
        /\ ValidChain(chain)
        /\ anchor_leaf2' =
              Upsert(anchor_leaf2, { UnfillBlockPayload(leaf) : leaf \in SeqToSet(chain) })
        /\ appended' = RecordChain(appended, chain)
    /\ pc' = [pc EXCEPT ![p] = "read_marker"]
    /\ ret' = [ret EXCEPT ![p] = "none"]
    /\ UNCHANGED coordVars
    /\ UNCHANGED sideVars
    /\ UNCHANGED <<vid_share2, da_proposal2, quorum_proposals2, quorum_certificate2,
                   state_cert, finalized_state_cert, event_stream, gc_opt, gen,
                   handled, rowError, artBudget, rowErrors>>

\* append_decided_leaves whose serialization, upsert or commit fails: nothing is
\* written and the error is returned.
AppendDecidedLeavesFail(p) ==
    /\ pc[p] = "idle"
    /\ ret' = [ret EXCEPT ![p] = "Err"]
    /\ UNCHANGED coordVars
    /\ UNCHANGED sideVars
    /\ UNCHANGED <<rowError, dbVars, gc_opt, pc, gen, appended, handled, artBudget, rowErrors>>

\* generate_decide_events: read last_processed_view.
GenReadMarker(p) ==
    /\ pc[p] = "read_marker"
    /\ gen' = [gen EXCEPT ![p].last_processed_view = event_stream]
    /\ pc' = [pc EXCEPT ![p] = "collect"]
    /\ UNCHANGED coordVars
    /\ UNCHANGED sideVars
    /\ UNCHANGED <<dbVars, gc_opt, ret, appended, handled, rowError, artBudget, rowErrors>>

\* One read transaction of the loop: the leaf chain and the VID shares, DA proposals
\* and state certs of its range.
\* Without a leaf the generator returns Ok and pruning follows.
GenCollect(p) ==
    /\ pc[p] = "collect"
    /\ \E fetched \in 0 .. Cardinality(anchor_leaf2) :
        LET rows == SelectLeaves(anchor_leaf2, QueryFromView(gen[p].last_processed_view))
            leaves == CollectLeaves(anchor_leaf2, gen[p].last_processed_view, fetched)
        IN  /\ fetched <= Len(rows)
            /\ fetched < Len(rows) => rowErrors
            /\ fetched < Len(rows) => rowError' = TRUE
            /\ fetched = Len(rows) => rowError' = rowError
            /\ IF leaves = <<>>
               THEN /\ pc' = [pc EXCEPT ![p] = "prune"]
                    /\ gen' = [gen EXCEPT ![p] = NoGen]
               ELSE /\ pc' = [pc EXCEPT ![p] = "emit"]
                    /\ gen' = [gen EXCEPT
                                 ![p].leaves = leaves,
                                 ![p].vid_shares =
                                     { v \in vid_share2 :
                                         InRange(v, ChainFromView(leaves),
                                                 ChainToView(leaves)) },
                                 ![p].da_proposals =
                                     { v \in da_proposal2 :
                                         InRange(v, ChainFromView(leaves),
                                                 ChainToView(leaves)) },
                                 ![p].state_certs =
                                     ByEpoch({ c \in state_cert :
                                         InRange(c.view, ChainFromView(leaves),
                                                 ChainToView(leaves)) })]
    /\ UNCHANGED coordVars
    /\ UNCHANGED sideVars
    /\ UNCHANGED <<dbVars, gc_opt, ret, appended, handled, artBudget, rowErrors>>

\* Variant of the generator that opens its write transaction without waiting for
\* the consumer.
ConsumerOkUnhandled(p) ==
    /\ pc[p] = "emit"
    /\ pc' = [pc EXCEPT ![p] = "write"]
    /\ UNCHANGED coordVars
    /\ UNCHANGED sideVars
    /\ UNCHANGED <<dbVars, gc_opt, gen, ret, appended, handled, rowError, artBudget,
                   rowErrors>>

\* consumer.handle_event succeeds.
ConsumerOk(p) ==
    /\ pc[p] = "emit"
    /\ handled' = handled \cup SeqToSet(DecideEvent(gen[p].leaves).leaf_chain)
    /\ pc' = [pc EXCEPT ![p] = "write"]
    /\ UNCHANGED coordVars
    /\ UNCHANGED sideVars
    /\ UNCHANGED <<dbVars, gc_opt, gen, ret, appended, rowError, artBudget, rowErrors>>

\* Variant of the generator that records the marker before it hands the event to
\* the consumer.
ConsumerFailMarked(p) ==
    /\ pc[p] = "emit"
    /\ event_stream' = ChainToView(gen[p].leaves)
    /\ Return(p, "Ok")
    /\ UNCHANGED coordVars
    /\ UNCHANGED sideVars
    /\ UNCHANGED <<anchor_leaf2, vid_share2, da_proposal2, quorum_proposals2,
                   quorum_certificate2, state_cert, finalized_state_cert, gc_opt,
                   appended, handled, rowError, artBudget, rowErrors>>

\* Variant of append_decided_leaves that prunes after a failed event generation.
ConsumerFailPruned(p) ==
    /\ pc[p] = "emit"
    /\ pc' = [pc EXCEPT ![p] = "prune"]
    /\ gen' = [gen EXCEPT ![p] = NoGen]
    /\ UNCHANGED coordVars
    /\ UNCHANGED sideVars
    /\ UNCHANGED <<rowError, dbVars, gc_opt, ret, appended, handled, artBudget, rowErrors>>

\* consumer.handle_event fails: the generator returns the error, append_decided_leaves
\* logs it and returns without pruning.
ConsumerFail(p) ==
    /\ pc[p] = "emit"
    /\ Return(p, AppendResult("Err"))
    /\ UNCHANGED coordVars
    /\ UNCHANGED sideVars
    /\ UNCHANGED <<rowError, dbVars, gc_opt, appended, handled, artBudget, rowErrors>>

\* Variant of the generator without the loop: one decide event per invocation.
GenCommitOnce(p) ==
    /\ pc[p] = "write"
    /\ LET from_view == ChainFromView(gen[p].leaves)
           to_view == ChainToView(gen[p].leaves)
       IN  /\ event_stream' = to_view
           /\ finalized_state_cert' =
                  UpsertByEpoch(finalized_state_cert, gen[p].state_certs)
           /\ vid_share2' = DeleteRange(vid_share2, from_view, to_view)
           /\ da_proposal2' = DeleteRange(da_proposal2, from_view, to_view)
           /\ quorum_proposals2' = DeleteRange(quorum_proposals2, from_view, to_view)
           /\ quorum_certificate2' = DeleteRange(quorum_certificate2, from_view, to_view)
           /\ state_cert' = DeleteCertRange(state_cert, from_view, to_view)
           /\ anchor_leaf2' = DeleteLeaves(anchor_leaf2, from_view, to_view)
           /\ gen' = [gen EXCEPT ![p] = NoGen]
    /\ pc' = [pc EXCEPT ![p] = "prune"]
    /\ UNCHANGED coordVars
    /\ UNCHANGED sideVars
    /\ UNCHANGED <<gc_opt, ret, appended, handled, rowError, artBudget, rowErrors>>

\* The write transaction of the loop: marker, finalized state certs, deletes, commit.
GenCommit(p) ==
    /\ pc[p] = "write"
    /\ LET from_view == ChainFromView(gen[p].leaves)
           to_view == ChainToView(gen[p].leaves)
       IN  /\ event_stream' = to_view
           /\ finalized_state_cert' =
                  UpsertByEpoch(finalized_state_cert, gen[p].state_certs)
           /\ vid_share2' = DeleteRange(vid_share2, from_view, to_view)
           /\ da_proposal2' = DeleteRange(da_proposal2, from_view, to_view)
           /\ quorum_proposals2' = DeleteRange(quorum_proposals2, from_view, to_view)
           /\ quorum_certificate2' = DeleteRange(quorum_certificate2, from_view, to_view)
           /\ state_cert' = DeleteCertRange(state_cert, from_view, to_view)
           /\ anchor_leaf2' = DeleteLeaves(anchor_leaf2, from_view, to_view)
           /\ gen' = [gen EXCEPT ![p] = [NoGen EXCEPT
                                            !.last_processed_view = to_view,
                                            !.deleted = gen[p].deleted \/ ~RowsKept]]
    /\ pc' = [pc EXCEPT ![p] = "collect"]
    /\ UNCHANGED coordVars
    /\ UNCHANGED sideVars
    /\ UNCHANGED <<gc_opt, ret, appended, handled, rowError, artBudget, rowErrors>>

\* Variant of the storage error in which a failed write transaction keeps its marker
\* update.
GenStorageFailMarked(p) ==
    /\ pc[p] \in {"read_marker", "collect", "write"}
    /\ event_stream' =
          IF pc[p] = "write" THEN ChainToView(gen[p].leaves) ELSE event_stream
    /\ Return(p, AppendResult("Err"))
    /\ UNCHANGED coordVars
    /\ UNCHANGED sideVars
    /\ UNCHANGED <<anchor_leaf2, vid_share2, da_proposal2, quorum_proposals2,
                   quorum_certificate2, state_cert, finalized_state_cert, gc_opt,
                   appended, handled, rowError, artBudget, rowErrors>>

\* A storage error inside generate_decide_events (opening a transaction, a query, a
\* decode, the commit): the open transaction is rolled back, the generator returns
\* the error, append_decided_leaves logs it and returns without pruning.
GenStorageFail(p) ==
    /\ pc[p] \in {"read_marker", "collect", "write"}
    /\ Return(p, AppendResult("Err"))
    /\ UNCHANGED coordVars
    /\ UNCHANGED sideVars
    /\ UNCHANGED <<rowError, dbVars, gc_opt, appended, handled, artBudget, rowErrors>>

\* prune(view): one write transaction over PRUNE_TABLES.
Prune(p) ==
    /\ pc[p] = "prune"
    /\ \E view \in DecideViews : \E usage \in Usages :
        LET cutoff == PruneCutoff(view, gc_opt, usage)
        IN  /\ anchor_leaf2' = PruneRows(anchor_leaf2, cutoff)
            /\ vid_share2' = PruneViews(vid_share2, cutoff)
            /\ da_proposal2' = PruneViews(da_proposal2, cutoff)
            /\ quorum_proposals2' = PruneViews(quorum_proposals2, cutoff)
            /\ quorum_certificate2' = PruneViews(quorum_certificate2, cutoff)
    /\ Return(p, AppendResult("Ok"))
    /\ UNCHANGED coordVars
    /\ UNCHANGED sideVars
    /\ UNCHANGED <<state_cert, finalized_state_cert, event_stream, gc_opt, appended,
                   handled, rowError, artBudget, rowErrors>>

\* prune(view) fails: its transaction is rolled back, the failure is logged.
PruneFail(p) ==
    /\ pc[p] = "prune"
    /\ Return(p, AppendResult("Err"))
    /\ UNCHANGED coordVars
    /\ UNCHANGED sideVars
    /\ UNCHANGED <<rowError, dbVars, gc_opt, appended, handled, artBudget, rowErrors>>

\* append_vid2
AppendVid2 ==
    /\ CanAppendArtifact
    /\ \E view \in ArtifactViews : vid_share2' = vid_share2 \cup {view}
    /\ artBudget' = artBudget - 1
    /\ UNCHANGED coordVars
    /\ UNCHANGED sideVars
    /\ UNCHANGED <<anchor_leaf2, da_proposal2, quorum_proposals2, quorum_certificate2,
                   state_cert, finalized_state_cert, event_stream, gc_opt, pc, gen,
                   ret, appended, handled, rowError, rowErrors>>

\* append_da2
AppendDa2 ==
    /\ CanAppendArtifact
    /\ \E view \in ArtifactViews : da_proposal2' = da_proposal2 \cup {view}
    /\ artBudget' = artBudget - 1
    /\ UNCHANGED coordVars
    /\ UNCHANGED sideVars
    /\ UNCHANGED <<anchor_leaf2, vid_share2, quorum_proposals2, quorum_certificate2,
                   state_cert, finalized_state_cert, event_stream, gc_opt, pc, gen,
                   ret, appended, handled, rowError, rowErrors>>

\* append_quorum_proposal2: the proposal and its justify QC, in one transaction.
AppendQuorumProposal2 ==
    /\ CanAppendArtifact
    /\ \E view \in ArtifactViews :
        /\ quorum_proposals2' = quorum_proposals2 \cup {view}
        /\ quorum_certificate2' = quorum_certificate2 \cup {SaturatingSub(view, 1)}
    /\ artBudget' = artBudget - 1
    /\ UNCHANGED coordVars
    /\ UNCHANGED sideVars
    /\ UNCHANGED <<anchor_leaf2, vid_share2, da_proposal2, state_cert,
                   finalized_state_cert, event_stream, gc_opt, pc, gen, ret,
                   appended, handled, rowError, rowErrors>>

\* add_state_cert
AddStateCert ==
    /\ CanAppendArtifact
    /\ \E view \in ArtifactViews : \E epoch \in StateCertEpochs :
        state_cert' = Upsert(state_cert, {[view |-> view, epoch |-> epoch]})
    /\ artBudget' = artBudget - 1
    /\ UNCHANGED coordVars
    /\ UNCHANGED sideVars
    /\ UNCHANGED <<anchor_leaf2, vid_share2, da_proposal2, quorum_proposals2,
                   quorum_certificate2, finalized_state_cert, event_stream, gc_opt, pc,
                   gen, ret, appended, handled, rowError, rowErrors>>

\* The process dies and restarts: running calls vanish, open transactions roll back,
\* the committed tables stay.
Crash ==
    /\ \E p \in Procs : pc[p] # "idle"
    /\ pc' = [p \in Procs |-> "idle"]
    /\ gen' = [p \in Procs |-> NoGen]
    /\ ret' = [p \in Procs |-> "none"]
    /\ UNCHANGED coordVars
    /\ UNCHANGED sideVars
    /\ UNCHANGED <<rowError, dbVars, gc_opt, appended, handled, artBudget, rowErrors>>

StoreStep(p) ==
    \/ AppendDecidedLeaves(p)
    \/ AppendDecidedLeavesFail(p)
    \/ GenReadMarker(p)
    \/ GenCollect(p)
    \/ ConsumerOk(p)
    \/ ConsumerFail(p)
    \/ GenCommit(p)
    \/ GenStorageFail(p)
    \/ Prune(p)
    \/ PruneFail(p)

StoreEnv ==
    \/ AppendVid2
    \/ AppendDa2
    \/ AppendQuorumProposal2
    \/ AddStateCert
    \/ Crash

(* ----------------------------- coordinator ----------------------------- *)

Epochs == 0 .. MaxEpoch

TaskIds == 1 .. MaxTasks

\* The epochs whose stake tables the membership holds from the start.
InitialEpochs == {0, 1}

NoTask == [epoch |-> 0, pc |-> "none", result |-> "none", stack |-> <<>>]

\* maybe_epoch = None
NoEpoch == 0 - 1

NoCall == [fn |-> "none", epoch |-> NoEpoch, pc |-> "idle", ret |-> "none"]

\* storage_add_drb_result_fn: not set, set and succeeding, set and failing.
Callbacks == {"None", "Ok", "Err"}

\* The two lookups of the coordinator.
Lookups == {"membership_for_epoch", "stake_table_for_epoch"}

\* The future of catchup(epoch) at its first await.
CatchupFrame(epoch) ==
    [fn |-> "catchup", epoch |-> epoch, pc |-> "root", rx |-> 0, early |-> FALSE,
     drb |-> <<>>, cb |-> 0]

\* The future of wait_for_catchup(epoch) at its first await.
WaitFrame(epoch) ==
    [fn |-> "wait_for_catchup", epoch |-> epoch, pc |-> "lock", rx |-> 0, early |-> FALSE,
     drb |-> <<>>, cb |-> 0]

\* Variant of the map lookup that never sees an entry.
ContainsKeyNever(map, epoch) == FALSE

\* catchup_map.contains_key(&epoch)
ContainsKey(map, epoch) == \E entry \in map : entry.epoch = epoch

\* map.insert(epoch, rx.deactivate())
Insert(map, epoch, tx) ==
    { entry \in map : entry.epoch # epoch } \cup {[epoch |-> epoch, tx |-> tx]}

\* catchup_map.remove(&epoch)
Remove(map, epoch) == { entry \in map : entry.epoch # epoch }

\* catchup_map.get(&epoch): the task whose sender feeds the stored receiver
Get(map, epoch) == (CHOOSE entry \in map : entry.epoch = epoch).tx

FreeTasks == { t \in TaskIds : tasks[t].pc = "none" }

\* tokio::spawn of spawn_catchup(coordinator, epoch): a new task, not yet run.
Spawn(epoch) ==
    [tasks EXCEPT ![MinOf(FreeTasks)] = [NoTask EXCEPT !.epoch = epoch, !.pc = "start"]]

Top(stack) == stack[Len(stack)]

\* The stack after the top future completes with Ok: its awaiter goes on.
Resume(stack) ==
    LET rest == SubSeq(stack, 1, Len(stack) - 1)
        awaiter == Top(rest)
    IN  [rest EXCEPT ![Len(rest)].pc =
            IF awaiter.pc = "root" THEN "add_root" ELSE "add_drb"]

\* Variant of the error return in which catchup goes on to the DRB result.
ReturnErrIgnored(t) ==
    [tasks EXCEPT ![t].stack[Len(tasks[t].stack)].pc = "add_drb"]

\* catchup returns Ok: the awaiting catchup goes on, or the task has its result.
ReturnOk(t) ==
    IF Len(tasks[t].stack) = 1
    THEN [tasks EXCEPT ![t].stack = <<>>, ![t].result = "Ok", ![t].pc = "send"]
    ELSE [tasks EXCEPT ![t].stack = Resume(tasks[t].stack)]

\* catchup returns Err: every awaiter passes the error on with `?`.
ReturnErr(t) ==
    [tasks EXCEPT ![t].stack = <<>>, ![t].result = "Err", ![t].pc = "send"]

SetTop(t, frame) == [tasks EXCEPT ![t].stack[Len(tasks[t].stack)] = frame]

Push(t, frame) == [tasks EXCEPT ![t].stack = Append(tasks[t].stack, frame)]

\* Task t runs its top future, which is `fn` at `at`.
Running(t, fn, at) ==
    /\ tasks[t].pc = "run"
    /\ Top(tasks[t].stack).fn = fn
    /\ Top(tasks[t].stack).pc = at

\* The receivers of task tx's channel that are active and have not received.
ActiveReceivers(tx) ==
    { t \in TaskIds :
        /\ tasks[t].pc = "run"
        /\ Top(tasks[t].stack).pc = "recv"
        /\ Top(tasks[t].stack).rx = tx }

\* The coordinator after new(), over a membership that holds the stake tables and
\* randomized stake tables of `genesis`.
InitCoordNew(genesis, callbacks) ==
    /\ stake_tables = genesis
    /\ randomized = genesis
    /\ catchup_map = {}
    /\ calls = {}
    /\ tasks = [t \in TaskIds |-> NoTask]
    /\ drb_results = [e \in Epochs |-> {}]
    /\ call = NoCall
    /\ storage_add_drb_result_fn \in callbacks
    /\ drb_storage = {}
    /\ epoch_drbs = [e \in Epochs |-> <<>>]
    /\ drb_calls = {}
    /\ membership_readers = {}

\* The same, with a get_epoch_drb that always succeeds.
InitCoordWith(genesis, callbacks) ==
    /\ InitCoordNew(genesis, callbacks)
    /\ drbErrors = FALSE

\* The coordinator over a membership with the genesis stake tables and a working
\* storage callback.
InitCoord == InitCoordWith(InitialEpochs, {"Ok"})

\* membership_for_epoch(Some(epoch)) up to its membership read: with a randomized
\* stake table it returns Ok, otherwise it goes on to the map.
MembershipForEpoch(epoch) ==
    /\ epoch \notin randomized
    /\ calls' = calls \cup {epoch}
    /\ UNCHANGED <<stake_tables, randomized, catchup_map, tasks, drb_results>>
    /\ UNCHANGED storeVars
    /\ UNCHANGED sideVars
    /\ UNCHANGED callVars

\* stake_table_for_epoch(Some(epoch)) up to its membership read.
StakeTableForEpoch(epoch) ==
    /\ epoch \notin stake_tables
    /\ calls' = calls \cup {epoch}
    /\ UNCHANGED <<stake_tables, randomized, catchup_map, tasks, drb_results>>
    /\ UNCHANGED storeVars
    /\ UNCHANGED sideVars
    /\ UNCHANGED callVars

\* The rest of either call: under the map lock, "already in progress" with an entry,
\* otherwise spawn_catchup and "starting catchup".
StartCatchup(epoch) ==
    /\ epoch \in calls
    /\ calls' = calls \ {epoch}
    /\ IF ContainsKey(catchup_map, epoch)
       THEN UNCHANGED tasks
       ELSE /\ FreeTasks # {}
            /\ tasks' = Spawn(epoch)
    /\ UNCHANGED <<stake_tables, randomized, catchup_map, drb_results>>
    /\ UNCHANGED storeVars
    /\ UNCHANGED sideVars
    /\ UNCHANGED callVars

\* Variant of the membership read that finds every table.
HasTableAlways(fn, epoch) == TRUE

\* The membership read of a lookup: has_randomized_stake_table(epoch) in
\* membership_for_epoch, has_stake_table(epoch) in stake_table_for_epoch.
HasTable(fn, epoch) ==
    IF fn = "membership_for_epoch" THEN epoch \in randomized ELSE epoch \in stake_tables

\* membership_for_epoch(maybe_epoch) or stake_table_for_epoch(maybe_epoch) of the
\* observed caller, who makes one request and retries it: Ok without an epoch or
\* with the table, otherwise on to the map.
CallForEpoch(fn, maybe_epoch) ==
    /\ call.pc = "idle"
    /\ call.fn = "none" \/ (call.fn = fn /\ call.epoch = maybe_epoch)
    /\ call' = IF maybe_epoch = NoEpoch \/ HasTable(fn, maybe_epoch)
               THEN [fn |-> fn, epoch |-> maybe_epoch, pc |-> "idle", ret |-> "Ok"]
               ELSE [fn |-> fn, epoch |-> maybe_epoch, pc |-> "lock", ret |-> "none"]
    /\ UNCHANGED <<stake_tables, randomized, catchup_map, calls, tasks, drb_results,
                   storage_add_drb_result_fn, drb_storage, drbErrors, epoch_drbs,
                   drb_calls, membership_readers>>
    /\ UNCHANGED storeVars
    /\ UNCHANGED sideVars

\* The rest of the observed call: under the map lock, the error "catchup already in
\* progress" with an entry, otherwise spawn_catchup and the error "starting catchup".
CallStartCatchup ==
    /\ call.pc = "lock"
    /\ IF ContainsKey(catchup_map, call.epoch)
       THEN /\ call' = [call EXCEPT !.pc = "idle", !.ret = "InProgress"]
            /\ UNCHANGED tasks
       ELSE /\ FreeTasks # {}
            /\ tasks' = Spawn(call.epoch)
            /\ call' = [call EXCEPT !.pc = "idle", !.ret = "Starting"]
    /\ UNCHANGED <<stake_tables, randomized, catchup_map, calls, drb_results,
                   storage_add_drb_result_fn, drb_storage, drbErrors, epoch_drbs,
                   drb_calls, membership_readers>>
    /\ UNCHANGED storeVars
    /\ UNCHANGED sideVars

\* The spawned task's critical section: return on an entry, else insert the receiver.
SpawnCatchup(t) ==
    /\ tasks[t].pc = "start"
    /\ IF ContainsKey(catchup_map, tasks[t].epoch)
       THEN /\ tasks' = [tasks EXCEPT ![t].pc = "skipped"]
            /\ UNCHANGED catchup_map
       ELSE /\ catchup_map' = Insert(catchup_map, tasks[t].epoch, t)
            /\ tasks' = [tasks EXCEPT ![t].pc = "run",
                                      ![t].stack = <<CatchupFrame(tasks[t].epoch)>>]
    /\ UNCHANGED <<stake_tables, randomized, calls, drb_results>>
    /\ UNCHANGED storeVars
    /\ UNCHANGED sideVars
    /\ UNCHANGED callVars

\* Variant of catchup without the ensure! on epochs 0 and 1.
CatchupRootNoEnsure(t) ==
    /\ Running(t, "catchup", "root")
    /\ LET frame == Top(tasks[t].stack)
       IN  tasks' =
             IF frame.epoch - 2 \in stake_tables
             THEN SetTop(t, [frame EXCEPT !.pc = "add_root"])
             ELSE Push(t, WaitFrame(frame.epoch - 2))
    /\ UNCHANGED <<stake_tables, randomized, catchup_map, calls, drb_results>>
    /\ UNCHANGED storeVars
    /\ UNCHANGED sideVars
    /\ UNCHANGED callVars

\* catchup: the ensure! on epochs 0 and 1, then the root epoch's stake table or
\* wait_for_catchup(root_epoch).
CatchupRoot(t) ==
    /\ Running(t, "catchup", "root")
    /\ LET frame == Top(tasks[t].stack)
       IN  tasks' =
             IF frame.epoch \in {0, 1} THEN ReturnErr(t)
             ELSE IF frame.epoch - 2 \in stake_tables
                  THEN SetTop(t, [frame EXCEPT !.pc = "add_root"])
                  ELSE Push(t, WaitFrame(frame.epoch - 2))
    /\ UNCHANGED <<stake_tables, randomized, catchup_map, calls, drb_results>>
    /\ UNCHANGED storeVars
    /\ UNCHANGED sideVars
    /\ UNCHANGED callVars

\* membership.write().await returns: no read guard is out (a write guard is never held
\* from one step to the next).
WriteLockFree == membership_readers = {}

\* Variant of catchup that goes on to the next stake table when the root fetch fails.
CatchupGetRootUnchecked(t) ==
    /\ Running(t, "catchup", "add_root")
    /\ LET frame == Top(tasks[t].stack)
       IN  \E ok \in BOOLEAN :
             IF ok
             THEN /\ membership_readers' = membership_readers \cup {t}
                  /\ tasks' = SetTop(t, [frame EXCEPT !.pc = "root_read"])
             ELSE /\ tasks' = SetTop(t, [frame EXCEPT !.pc = "next_stake"])
                  /\ UNCHANGED membership_readers
    /\ UNCHANGED <<stake_tables, randomized, catchup_map, calls, drb_results>>
    /\ UNCHANGED storeVars
    /\ UNCHANGED sideVars
    /\ UNCHANGED <<call, storage_add_drb_result_fn, drb_storage, drbErrors, epoch_drbs,
                   drb_calls>>

\* catchup: get_epoch_root, whose failure fails the catchup, then the membership read
\* guard under which add_epoch_root runs.
CatchupGetRoot(t) ==
    /\ Running(t, "catchup", "add_root")
    /\ LET frame == Top(tasks[t].stack)
       IN  \E ok \in BOOLEAN :
             IF ok
             THEN /\ membership_readers' = membership_readers \cup {t}
                  /\ tasks' = SetTop(t, [frame EXCEPT !.pc = "root_read"])
             ELSE /\ tasks' = ReturnErr(t)
                  /\ UNCHANGED membership_readers
    /\ UNCHANGED <<stake_tables, randomized, catchup_map, calls, drb_results>>
    /\ UNCHANGED storeVars
    /\ UNCHANGED sideVars
    /\ UNCHANGED <<call, storage_add_drb_result_fn, drb_storage, drbErrors, epoch_drbs,
                   drb_calls>>

\* Variant of catchup that keeps the read guard while it asks for the write lock.
CatchupAddEpochRootGuarded(t) ==
    /\ Running(t, "catchup", "root_read")
    /\ LET frame == Top(tasks[t].stack)
       IN  \E ok \in BOOLEAN :
             IF ok
             THEN /\ tasks' = SetTop(t, [frame EXCEPT !.pc = "root_write"])
                  /\ UNCHANGED membership_readers
             ELSE /\ tasks' = ReturnErr(t)
                  /\ membership_readers' = membership_readers \ {t}
    /\ UNCHANGED <<stake_tables, randomized, catchup_map, calls, drb_results>>
    /\ UNCHANGED storeVars
    /\ UNCHANGED sideVars
    /\ UNCHANGED <<call, storage_add_drb_result_fn, drb_storage, drbErrors, epoch_drbs,
                   drb_calls>>

\* catchup: add_epoch_root returns under the read guard, which is dropped at the end of
\* the statement; without an updater the catchup fails.
CatchupAddEpochRoot(t) ==
    /\ Running(t, "catchup", "root_read")
    /\ LET frame == Top(tasks[t].stack)
       IN  \E ok \in BOOLEAN :
             /\ membership_readers' = membership_readers \ {t}
             /\ tasks' = IF ok THEN SetTop(t, [frame EXCEPT !.pc = "root_write"])
                               ELSE ReturnErr(t)
    /\ UNCHANGED <<stake_tables, randomized, catchup_map, calls, drb_results>>
    /\ UNCHANGED storeVars
    /\ UNCHANGED sideVars
    /\ UNCHANGED <<call, storage_add_drb_result_fn, drb_storage, drbErrors, epoch_drbs,
                   drb_calls>>

\* catchup: the updater of add_epoch_root under the write lock.
CatchupAddRoot(t) ==
    /\ Running(t, "catchup", "root_write")
    /\ WriteLockFree
    /\ LET frame == Top(tasks[t].stack)
       IN  /\ stake_tables' = stake_tables \cup {frame.epoch}
           /\ tasks' = SetTop(t, [frame EXCEPT !.pc = "next_stake"])
    /\ UNCHANGED <<randomized, catchup_map, calls, drb_results>>
    /\ UNCHANGED storeVars
    /\ UNCHANGED sideVars
    /\ UNCHANGED callVars

\* Variant of catchup that takes the DRB membership without a stake table.
CatchupNextStakeUnchecked(t) ==
    /\ Running(t, "catchup", "next_stake")
    /\ tasks' = SetTop(t, [Top(tasks[t].stack) EXCEPT !.pc = "add_drb"])
    /\ UNCHANGED <<stake_tables, randomized, catchup_map, calls, drb_results>>
    /\ UNCHANGED storeVars
    /\ UNCHANGED sideVars
    /\ UNCHANGED callVars

\* catchup: root_membership.next_epoch_stake_table(), its membership read.
CatchupNextStake(t) ==
    /\ Running(t, "catchup", "next_stake")
    /\ LET frame == Top(tasks[t].stack)
       IN  tasks' = SetTop(t, [frame EXCEPT !.pc =
                 IF frame.epoch - 1 \in stake_tables THEN "add_drb" ELSE "next_lock"])
    /\ UNCHANGED <<stake_tables, randomized, catchup_map, calls, drb_results>>
    /\ UNCHANGED storeVars
    /\ UNCHANGED sideVars
    /\ UNCHANGED callVars

\* catchup: next_epoch_stake_table() under the map lock (spawn_catchup without an
\* entry); its Err sends catchup into wait_for_catchup(root_epoch + 1).
CatchupNextLock(t) ==
    /\ Running(t, "catchup", "next_lock")
    /\ LET frame == Top(tasks[t].stack)
       IN  IF ContainsKey(catchup_map, frame.epoch - 1)
           THEN tasks' = Push(t, WaitFrame(frame.epoch - 1))
           ELSE /\ FreeTasks # {}
                /\ tasks' = [Spawn(frame.epoch - 1) EXCEPT
                               ![t].stack = Append(tasks[t].stack,
                                                   WaitFrame(frame.epoch - 1))]
    /\ UNCHANGED <<stake_tables, randomized, catchup_map, calls, drb_results>>
    /\ UNCHANGED storeVars
    /\ UNCHANGED sideVars
    /\ UNCHANGED callVars

\* Length of the DRB seed, scaled down from 32 bytes.
SeedLen == 2

\* bincode::serialize(&root_leaf.justify_qc().signatures) for the root leaf of a root
\* epoch: byte vectors shorter than, as long as and longer than the seed.
SerializedSignatures(root_epoch) == [ i \in 1 .. root_epoch + 1 |-> root_epoch + i ]

\* Variant of the seed that takes the last bytes of the vector.
DrbSeedInputTail(vec) ==
    [ i \in 1 .. SeedLen |->
        IF Len(vec) - SeedLen + i >= 1 THEN vec[Len(vec) - SeedLen + i] ELSE 0 ]

\* drb_seed_input: zeroes, with the first min(len, 32) bytes of the vector copied in.
DrbSeedInput(vec) == [ i \in 1 .. SeedLen |-> IF i <= Len(vec) THEN vec[i] ELSE 0 ]

\* compute_drb_result(seed)
ComputeDrbResult(seed) == <<"computed", seed>>

\* The DRB result get_epoch_drb returns for the epoch before the one caught up.
FetchedDrbResult(epoch) == <<"fetched", epoch - 1>>

\* The outcomes of get_epoch_drb in this run.
DrbFetches == IF drbErrors THEN {"Ok", "Err"} ELSE {"Ok"}

\* The DRB result of catchup(epoch): fetched, or computed from the signatures of the
\* root leaf's justify QC when the fetch fails.
DrbResult(epoch, fetch) ==
    IF fetch = "Ok" THEN FetchedDrbResult(epoch)
    ELSE ComputeDrbResult(DrbSeedInput(SerializedSignatures(epoch - 2)))

\* Variant of catchup whose DRB step fails with the fetch.
CatchupDrbFetchOnly(t) ==
    /\ Running(t, "catchup", "add_drb")
    /\ LET frame == Top(tasks[t].stack)
       IN  \E fetch \in DrbFetches :
             IF fetch = "Ok"
             THEN /\ tasks' = SetTop(t, [frame EXCEPT !.pc = "write_drb",
                                                      !.drb = <<DrbResult(frame.epoch, fetch)>>])
                  /\ UNCHANGED <<drb_storage, drb_calls>>
             ELSE /\ tasks' = ReturnErr(t)
                  /\ UNCHANGED <<drb_storage, drb_calls>>
    /\ UNCHANGED <<stake_tables, randomized, catchup_map, calls, drb_results>>
    /\ UNCHANGED storeVars
    /\ UNCHANGED sideVars
    /\ UNCHANGED <<call, storage_add_drb_result_fn, drbErrors, epoch_drbs,
                   membership_readers>>

\* Variant of catchup that goes to add_drb_result without the storage callback.
CatchupDrbUnsaved(t) ==
    /\ Running(t, "catchup", "add_drb")
    /\ LET frame == Top(tasks[t].stack)
       IN  \E fetch \in DrbFetches :
             tasks' = SetTop(t, [frame EXCEPT !.pc = "write_drb",
                                              !.drb = <<DrbResult(frame.epoch, fetch)>>])
    /\ UNCHANGED <<stake_tables, randomized, catchup_map, calls, drb_results>>
    /\ UNCHANGED storeVars
    /\ UNCHANGED sideVars
    /\ UNCHANGED callVars

\* catchup: the DRB result fetched, or computed when the fetch fails, then the storage
\* callback when one is set (its error is logged).
CatchupDrb(t) ==
    /\ Running(t, "catchup", "add_drb")
    /\ LET frame == Top(tasks[t].stack)
       IN  \E fetch \in DrbFetches :
             LET drb == DrbResult(frame.epoch, fetch)
                 called == storage_add_drb_result_fn # "None"
             IN  /\ drb_calls' =
                       IF called
                       THEN drb_calls \cup {[epoch |-> frame.epoch, drb |-> drb, task |-> t]}
                       ELSE drb_calls
                 /\ drb_storage' = IF storage_add_drb_result_fn = "Ok"
                                     THEN drb_storage \cup {frame.epoch}
                                     ELSE drb_storage
                 /\ tasks' = SetTop(t, [frame EXCEPT !.pc = "write_drb", !.drb = <<drb>>,
                                                     !.cb = IF called THEN @ + 1 ELSE @])
    /\ UNCHANGED <<stake_tables, randomized, catchup_map, calls, drb_results>>
    /\ UNCHANGED storeVars
    /\ UNCHANGED sideVars
    /\ UNCHANGED <<call, storage_add_drb_result_fn, drbErrors, epoch_drbs,
                   membership_readers>>

\* catchup: add_drb_result under the write lock, then Ok.
CatchupAddDrb(t) ==
    /\ Running(t, "catchup", "write_drb")
    /\ WriteLockFree
    /\ LET frame == Top(tasks[t].stack)
       IN  /\ randomized' = randomized \cup {frame.epoch}
           /\ epoch_drbs' = [epoch_drbs EXCEPT ![frame.epoch] = frame.drb]
           /\ drb_results' = [drb_results EXCEPT ![frame.epoch] = @ \cup {t}]
           /\ tasks' = ReturnOk(t)
    /\ UNCHANGED <<stake_tables, catchup_map, calls>>
    /\ UNCHANGED storeVars
    /\ UNCHANGED sideVars
    /\ UNCHANGED <<call, storage_add_drb_result_fn, drb_storage, drbErrors, drb_calls,
                   membership_readers>>

\* wait_for_catchup under the map lock: activate a clone of the stored receiver, or
\* go into catchup(epoch) without an entry.
WaitLock(t) ==
    /\ Running(t, "wait_for_catchup", "lock")
    /\ LET frame == Top(tasks[t].stack)
       IN  tasks' =
             IF ContainsKey(catchup_map, frame.epoch)
             THEN LET tx == Get(catchup_map, frame.epoch)
                  IN  SetTop(t, [frame EXCEPT !.pc = "recv", !.rx = tx,
                                              !.early = tasks[tx].pc \in {"run", "send"}])
             ELSE SetTop(t, CatchupFrame(frame.epoch))
    /\ UNCHANGED <<stake_tables, randomized, catchup_map, calls, drb_results>>
    /\ UNCHANGED storeVars
    /\ UNCHANGED sideVars
    /\ UNCHANGED callVars

\* Variant of recv_direct that takes any broadcast result for success.
WaitRecvAnyResult(t) ==
    /\ Running(t, "wait_for_catchup", "recv")
    /\ LET frame == Top(tasks[t].stack)
           sender == tasks[frame.rx]
       IN  /\ IF frame.early THEN sender.pc \in {"remove", "done"}
                             ELSE sender.pc = "done"
           /\ tasks' = IF frame.early THEN ReturnOk(t)
                                      ELSE SetTop(t, CatchupFrame(frame.epoch))
    /\ UNCHANGED <<stake_tables, randomized, catchup_map, calls, drb_results>>
    /\ UNCHANGED storeVars
    /\ UNCHANGED sideVars
    /\ UNCHANGED callVars

\* wait_for_catchup's recv_direct: the broadcast result to a receiver activated
\* before the send, the closed channel to one activated after it; anything but
\* Ok(Ok(_)) goes into catchup(epoch).
WaitRecv(t) ==
    /\ Running(t, "wait_for_catchup", "recv")
    /\ LET frame == Top(tasks[t].stack)
           sender == tasks[frame.rx]
       IN  /\ IF frame.early THEN sender.pc \in {"remove", "done"}
                             ELSE sender.pc = "done"
           /\ tasks' =
                IF frame.early /\ sender.result = "Ok"
                THEN ReturnOk(t)
                ELSE SetTop(t, CatchupFrame(frame.epoch))
    /\ UNCHANGED <<stake_tables, randomized, catchup_map, calls, drb_results>>
    /\ UNCHANGED storeVars
    /\ UNCHANGED sideVars
    /\ UNCHANGED callVars

\* spawn_catchup: tx.broadcast_direct(result), which waits for an active receiver.
Broadcast(t) ==
    /\ tasks[t].pc = "send"
    /\ ActiveReceivers(t) # {}
    /\ tasks' = [tasks EXCEPT ![t].pc =
                    IF tasks[t].result = "Ok" THEN "done" ELSE "remove"]
    /\ UNCHANGED <<stake_tables, randomized, catchup_map, calls, drb_results>>
    /\ UNCHANGED storeVars
    /\ UNCHANGED sideVars
    /\ UNCHANGED callVars

\* spawn_catchup after a failed catchup: the entry is removed, the task ends.
RemoveEntry(t) ==
    /\ tasks[t].pc = "remove"
    /\ catchup_map' = Remove(catchup_map, tasks[t].epoch)
    /\ tasks' = [tasks EXCEPT ![t].pc = "done"]
    /\ UNCHANGED <<stake_tables, randomized, calls, drb_results>>
    /\ UNCHANGED storeVars
    /\ UNCHANGED sideVars
    /\ UNCHANGED callVars

TaskStep(t) ==
    \/ SpawnCatchup(t)
    \/ CatchupRoot(t)
    \/ CatchupGetRoot(t)
    \/ CatchupAddEpochRoot(t)
    \/ CatchupAddRoot(t)
    \/ CatchupNextStake(t)
    \/ CatchupNextLock(t)
    \/ CatchupDrb(t)
    \/ CatchupAddDrb(t)
    \/ WaitLock(t)
    \/ WaitRecv(t)
    \/ Broadcast(t)
    \/ RemoveEntry(t)

CallStep(epoch) ==
    \/ MembershipForEpoch(epoch)
    \/ StakeTableForEpoch(epoch)
    \/ StartCatchup(epoch)

NextCoord == (\E t \in TaskIds : TaskStep(t)) \/ (\E epoch \in Epochs : CallStep(epoch))

CallerStep ==
    \/ \E fn \in Lookups : \E maybe_epoch \in Epochs \cup {NoEpoch} :
          CallForEpoch(fn, maybe_epoch)
    \/ CallStartCatchup

\* One caller who retries its request, and the catchup tasks.
NextCaller == CallerStep \/ (\E t \in TaskIds : TaskStep(t))

(* -------------------------- highest_voted_view ------------------------- *)

\* The artifact tables whose rows are followed with their data.
DataTables == {"vid_share2", "da_proposal2", "quorum_proposals2", "quorum_certificate2"}

\* The legacy tables the migrations read.
LegacyTables ==
    {"anchor_leaf", "da_proposal", "vid_share", "quorum_proposals", "quorum_certificate"}

NoPrune == [view |-> NoView, usage |-> 0, count |-> 0]

\* No migration running: the locals of a migrate_* call, its result and its last
\* info message.
NoMig ==
    [table |-> "none", pc |-> "idle", offset |-> 0, rows |-> <<>>, result |-> "none",
     info |-> "none"]


\* Width of the signed integer a view is stored in, scaled down from 64 bits.
I64Bits == 4

\* `view.u64() as i64`: the unsigned view reinterpreted in the signed column type.
AsI64(u) == IF u >= 2 ^ (I64Bits - 1) THEN u - 2 ^ I64Bits ELSE u

\* `view as u64`: the stored signed value reinterpreted as a view.
AsU64(i) == i % (2 ^ I64Bits)

\* HotShotAction, the variants that matter and two of the others.
HotShotActions == {"Propose", "Vote", "DaVote", "ViewSyncVote"}

\* What a call on these tables returned.
Returned(op, arg, status, value) ==
    [op |-> op, arg |-> arg, status |-> status, value |-> value]

NoReturn == Returned("none", <<>>, "none", <<>>)

\* Variant of the upsert that overwrites the stored view.
UpsertView(stored, view) == view

\* INSERT ... ON CONFLICT (id) DO UPDATE SET view = MAX(highest_voted_view.view,
\* excluded.view): the row after the statement.
UpsertMaxView(stored, view) ==
    IF stored = NoView THEN view
    ELSE IF stored >= view THEN stored ELSE view

\* record_action(view, _, action): Ok at once unless the action is Propose or Vote;
\* otherwise the MAX-upsert in its own write transaction.
RecordAction(view, action) ==
    /\ IF action \in {"Propose", "Vote"}
       THEN /\ highest_voted_view' = UpsertMaxView(highest_voted_view, AsI64(view))
            /\ acted' = acted \cup {view}
       ELSE UNCHANGED <<highest_voted_view, acted>>
    /\ returned' = Returned("record_action", <<action, view>>, "Ok", <<>>)
    /\ UNCHANGED <<artifact_rows, pruned, legacy, epoch_migration, mig,
                   epoch_drb_and_root, epoch_info>>
    /\ UNCHANGED storeVars
    /\ UNCHANGED coordVars

\* record_action whose transaction cannot be opened, executed or committed.
RecordActionFail(view, action) ==
    /\ action \in {"Propose", "Vote"}
    /\ returned' = Returned("record_action", <<action, view>>, "Err", <<>>)
    /\ UNCHANGED <<highest_voted_view, acted, artifact_rows, pruned, legacy,
                   epoch_migration, mig, epoch_drb_and_root, epoch_info>>
    /\ UNCHANGED storeVars
    /\ UNCHANGED coordVars

\* load_latest_acted_view: the view of row id 0, None without the row.
LoadLatestActedView ==
    /\ returned' = Returned("load_latest_acted_view", <<>>, "Ok",
                            IF highest_voted_view = NoView THEN <<>>
                            ELSE <<AsU64(highest_voted_view)>>)
    /\ UNCHANGED <<highest_voted_view, acted, artifact_rows, pruned, legacy,
                   epoch_migration, mig, epoch_drb_and_root, epoch_info>>
    /\ UNCHANGED storeVars
    /\ UNCHANGED coordVars

\* Concurrent callers of record_action and a reader: each statement is atomic in
\* the database, the calls interleave in any order.
NextActed ==
    \/ \E view \in Views : \E action \in HotShotActions : RecordAction(view, action)
    \/ \E view \in Views : \E action \in HotShotActions : RecordActionFail(view, action)
    \/ LoadLatestActedView

(* --------------------------- artifact rows ----------------------------- *)

\* Number of artifact rows appended in a run that follows the data.
MaxAppends == 2

\* Two distinct payloads: enough to tell a row from the one it replaced.
Bodies == {1, 2}

\* A VID share or a DA proposal of a view, over a payload.
Proposals == [view : Views, body : Bodies]

\* A quorum proposal of a view: its block, and the leaf its justify QC certifies.
QuorumProposals == [view : Views, body : Bodies, justify : Bodies]

\* bincode::serialize / bincode::deserialize
Serialize(x) == <<"bincode", x>>

Deserialize(bytes) == bytes[2]

\* convert_proposal into Proposal<VidDisperseShare>: the share in the V1 variant.
ConvertProposal(x) == [variant |-> "V1", share |-> x]

\* payload_commitment / vid_commit of a payload
PayloadHash(body) == <<"payload", body>>

\* Committable::commit(&Leaf2::from_quorum_proposal(..)) of the leaf of a view and block
LeafHash(view, body) == <<"leaf", view, body>>

\* justify_qc of a proposal: the QC of the view before, over the parent leaf.
JustifyQc(x) ==
    [view |-> SaturatingSub(x.view, 1),
     leaf_commit |-> LeafHash(SaturatingSub(x.view, 1), x.justify)]

\* SELECT data FROM <table> WHERE view = $1
SelectByView(table, view) == { r.data : r \in { q \in table : q.view = view } }

\* SELECT data FROM <table> WHERE <hash column> = $1
SelectByHash(table, hash) == { r.data : r \in { q \in table : q.hash = hash } }

\* fetch_optional / LIMIT 1: one of the selected rows, None without one.
FetchOptional(selected) == IF selected = {} THEN <<>> ELSE <<CHOOSE d \in selected : TRUE>>

\* The optional row decoded.
Decoded(optional) == [ i \in 1 .. Len(optional) |-> Deserialize(optional[i]) ]

\* A data row is appended: one write transaction, one artifact off the budget.
AppendRows(op, x, rows) ==
    /\ CanAppendArtifact
    /\ artBudget' = artBudget - 1
    /\ artifact_rows' = rows
    /\ returned' = Returned(op, <<x>>, "Ok", <<>>)
    /\ UNCHANGED <<highest_voted_view, acted, pruned, legacy, epoch_migration, mig,
                   epoch_drb_and_root, epoch_info>>
    /\ UNCHANGED <<dbVars, gc_opt, pc, gen, ret, appended, handled, rowError, rowErrors>>
    /\ UNCHANGED coordVars

\* append_vid2 with the row's data.
AppendVid2Data(x) ==
    AppendRows("append_vid2", x,
        [artifact_rows EXCEPT !["vid_share2"] =
            Upsert(@, {[view |-> x.view, hash |-> PayloadHash(x.body),
                        data |-> Serialize(ConvertProposal(x))]})])

\* append_da2 with the row's data.
AppendDa2Data(x) ==
    AppendRows("append_da2", x,
        [artifact_rows EXCEPT !["da_proposal2"] =
            Upsert(@, {[view |-> x.view, hash |-> PayloadHash(x.body),
                        data |-> Serialize(x)]})])

\* append_quorum_proposal2 with the rows' data: the proposal and its justify QC.
AppendQuorumProposal2Data(x) ==
    AppendRows("append_quorum_proposal2", x,
        [artifact_rows EXCEPT
            !["quorum_proposals2"] =
                Upsert(@, {[view |-> x.view, hash |-> LeafHash(x.view, x.body),
                            data |-> Serialize(x)]}),
            !["quorum_certificate2"] =
                Upsert(@, {[view |-> JustifyQc(x).view, hash |-> JustifyQc(x).leaf_commit,
                            data |-> Serialize(JustifyQc(x))]})])

\* A read-only call on the artifact rows returns.
ReadRows(op, arg, status, value) ==
    /\ returned' = Returned(op, arg, status, value)
    /\ UNCHANGED <<highest_voted_view, acted, artifact_rows, pruned, legacy,
                   epoch_migration, mig, epoch_drb_and_root, epoch_info>>
    /\ UNCHANGED storeVars
    /\ UNCHANGED coordVars

\* load_vid_share(view)
LoadVidShare(view) ==
    ReadRows("load_vid_share", <<view>>, "Ok",
             Decoded(FetchOptional(SelectByView(artifact_rows["vid_share2"], view))))

\* load_da_proposal(view)
LoadDaProposal(view) ==
    ReadRows("load_da_proposal", <<view>>, "Ok",
             Decoded(FetchOptional(SelectByView(artifact_rows["da_proposal2"], view))))

\* load_quorum_proposal(view): fetch_one, an error without the row.
LoadQuorumProposal(view) ==
    LET row == FetchOptional(SelectByView(artifact_rows["quorum_proposals2"], view))
    IN  ReadRows("load_quorum_proposal", <<view>>,
                 IF row = <<>> THEN "Err" ELSE "Ok", Decoded(row))

(* --------------------------- fetch providers --------------------------- *)

\* What can go wrong in a fetch: the transaction cannot be opened, the query
\* fails, the row does not decode, the fetched leaf and QC do not fit.
FetchFaults == {"none", "open", "query", "decode", "invalid"}

\* Variant of the providers that hands a failure to the caller.
FetchOutcomePropagated(fault, found) ==
    [status |-> IF fault = "none" THEN "Ok" ELSE "Err",
     value |-> IF fault = "none" THEN found ELSE <<>>]

\* What a provider returns: None on every failure, else what the rows hold.
FetchOutcome(fault, found) ==
    [status |-> "Ok", value |-> IF fault = "none" THEN found ELSE <<>>]

\* The VidCommon of a decoded share, in the share's variant.
VidCommonOf(share) == [variant |-> share.variant, common |-> share.share.body]

\* fetch_leaf_from_proposals: the proposal and the QC stored under the leaf hash,
\* None when one of them is missing.
FetchLeafFromProposals(rows, expected_leaf) ==
    LET proposal == FetchOptional(SelectByHash(rows["quorum_proposals2"], expected_leaf))
        qc == FetchOptional(SelectByHash(rows["quorum_certificate2"], expected_leaf))
    IN  IF proposal = <<>> \/ qc = <<>> THEN <<>>
        ELSE << [leaf |-> LeafHash(Deserialize(proposal[1]).view,
                                   Deserialize(proposal[1]).body),
                 qc |-> Deserialize(qc[1])] >>

\* Provider<VidCommonRequest>::fetch
FetchVidCommon(req, fault) ==
    LET share == Decoded(FetchOptional(SelectByHash(artifact_rows["vid_share2"], req)))
        outcome == FetchOutcome(fault, [ i \in 1 .. Len(share) |-> VidCommonOf(share[i]) ])
    IN  ReadRows("fetch_vid_common", <<req, fault>>, outcome.status, outcome.value)

\* Provider<PayloadRequest>::fetch
FetchPayload(req, fault) ==
    LET proposal == Decoded(FetchOptional(SelectByHash(artifact_rows["da_proposal2"], req)))
        outcome == FetchOutcome(fault, [ i \in 1 .. Len(proposal) |-> proposal[i].body ])
    IN  ReadRows("fetch_payload", <<req, fault>>, outcome.status, outcome.value)

\* Provider<LeafRequest>::fetch
FetchLeaf(req, fault) ==
    LET outcome == FetchOutcome(fault, FetchLeafFromProposals(artifact_rows, req))
    IN  ReadRows("fetch_leaf", <<req, fault>>, outcome.status, outcome.value)

\* The appenders, loaders and fetch providers of the artifact rows.
NextArtifacts ==
    \/ \E x \in Proposals : AppendVid2Data(x)
    \/ \E x \in Proposals : AppendDa2Data(x)
    \/ \E x \in QuorumProposals : AppendQuorumProposal2Data(x)
    \/ \E view \in Views : LoadVidShare(view)
    \/ \E view \in Views : LoadDaProposal(view)
    \/ \E view \in Views : LoadQuorumProposal(view)
    \/ \E body \in Bodies : \E fault \in FetchFaults :
          FetchVidCommon(PayloadHash(body), fault)
    \/ \E body \in Bodies : \E fault \in FetchFaults :
          FetchPayload(PayloadHash(body), fault)
    \/ \E view \in Views : \E body \in Bodies : \E fault \in FetchFaults :
          FetchLeaf(LeafHash(view, body), fault)

(* ------------------------ pruning on its own --------------------------- *)

\* Number of decides without leaves in a run.
MaxPrunes == 2

\* Highest retention period of the options explored.
MaxRetention == 3

\* Every configuration of the two retention periods up to MaxRetention; the usage
\* query returns 0 or 2 (Usages), against target_usage = 1.
PruneConfigs ==
    { [target_retention |-> t, minimum_retention |-> m, target_usage |-> 1] :
          t \in 0 .. MaxRetention, m \in 0 .. MaxRetention }

\* The views a decide without leaves is for.
PruneAtViews == 0 .. MaxView + 2

\* append_decided_leaves(view, [], consumer) on a store whose leaves have all been
\* processed: nothing to write, nothing to emit, then prune(view) with the usage
\* its query measures.
DecideWithoutLeaves(view, usage) ==
    /\ \A p \in Procs : pc[p] = "idle"
    /\ CollectLeaves(anchor_leaf2, event_stream,
                     Len(SelectLeaves(anchor_leaf2, QueryFromView(event_stream)))) = <<>>
    /\ pruned.count < MaxPrunes
    /\ LET cutoff == PruneCutoff(view, gc_opt, usage)
       IN  /\ anchor_leaf2' = PruneRows(anchor_leaf2, cutoff)
           /\ vid_share2' = PruneViews(vid_share2, cutoff)
           /\ da_proposal2' = PruneViews(da_proposal2, cutoff)
           /\ quorum_proposals2' = PruneViews(quorum_proposals2, cutoff)
           /\ quorum_certificate2' = PruneViews(quorum_certificate2, cutoff)
    /\ pruned' = [view |-> view, usage |-> usage, count |-> pruned.count + 1]
    /\ UNCHANGED <<state_cert, finalized_state_cert, event_stream, gc_opt, pc, gen, ret,
                   appended, handled, rowError, rowErrors, artBudget>>
    /\ UNCHANGED <<highest_voted_view, acted, artifact_rows, returned, legacy,
                   epoch_migration, mig, epoch_drb_and_root, epoch_info>>
    /\ UNCHANGED coordVars

\* One caller of append_decided_leaves whose calls run without a failure, the
\* appenders, and decides without leaves.
NextPrune ==
    \/ AppendDecidedLeaves("p1")
    \/ GenReadMarker("p1")
    \/ GenCollect("p1")
    \/ ConsumerOk("p1")
    \/ GenCommit("p1")
    \/ Prune("p1")
    \/ AppendVid2
    \/ AppendDa2
    \/ AppendQuorumProposal2
    \/ \E view \in PruneAtViews : \E usage \in Usages : DecideWithoutLeaves(view, usage)

(* ------------------------------ migrations ----------------------------- *)

\* batch_size, scaled down from 10000.
BatchSize == 2

\* A legacy row: a leaf or a proposal of the view, the leaf at the height of its view.
LegacyRow(view) == [view |-> view, height |-> view]

\* The legacy tables a node may start with: the same views in each of them.
LegacyStores == { [t \in LegacyTables |-> { LegacyRow(v) : v \in vs }] : vs \in SUBSET Views }

\* The v2 row of a legacy row: Leaf::into / to_qc2 keep view and height of a leaf,
\* convert_proposal keeps the view number of a proposal, which becomes the row's view.
ConvertRow(table, row) ==
    IF table = "anchor_leaf" THEN [view |-> row.view, height |-> row.height] ELSE row.view

\* The views of the v2 table a legacy table is migrated to.
MigratedViews(table) ==
    CASE table = "anchor_leaf" -> RowViews(anchor_leaf2)
      [] table = "da_proposal" -> da_proposal2
      [] table = "vid_share" -> vid_share2
      [] table = "quorum_proposals" -> quorum_proposals2
      [] table = "quorum_certificate" -> quorum_certificate2

\* What the batch insert of a migration does on a row whose view is already in the
\* v2 table: four migrations push ON CONFLICT DO NOTHING, migrate_vid_shares does not.
OnConflict(table) == IF table = "vid_share" THEN "error" ELSE "nothing"

\* Variant of the completed check that never skips.
NeverMigrated(marker) == FALSE

\* if is_completed { return Ok(()) }
AlreadyMigrated(marker) == marker.completed

\* SELECT ... FROM <legacy> WHERE view >= $1 ORDER BY view LIMIT $2
SelectBatch(table, offset, limit) ==
    LET rows == OrderByView({ r \in table : r.view >= offset })
    IN  SubSeq(rows, 1, IF Len(rows) < limit THEN Len(rows) ELSE limit)

\* The views of a batch.
BatchViews(rows) == { rows[i].view : i \in 1 .. Len(rows) }

\* migrate_<table>: read (completed, migrated_rows); a completed migration returns Ok.
MigrateStart(table) ==
    /\ mig.pc = "idle"
    /\ LET marker == epoch_migration[table]
       IN  IF AlreadyMigrated(marker)
           THEN mig' = [NoMig EXCEPT !.table = table, !.result = "Ok",
                                     !.info = "already migrated"]
           ELSE mig' = [NoMig EXCEPT !.table = table, !.pc = "select",
                                     !.offset = marker.migrated_rows]
    /\ UNCHANGED <<highest_voted_view, acted, artifact_rows, returned, pruned, legacy,
                   epoch_migration, epoch_drb_and_root, epoch_info>>
    /\ UNCHANGED storeVars
    /\ UNCHANGED coordVars

\* The read transaction of one round of the loop: an empty batch leaves the loop.
MigrateSelect ==
    /\ mig.pc = "select"
    /\ LET rows == SelectBatch(legacy[mig.table], mig.offset, BatchSize)
       IN  mig' = [mig EXCEPT !.rows = rows,
                              !.pc = IF rows = <<>> THEN "complete" ELSE "insert"]
    /\ UNCHANGED <<highest_voted_view, acted, artifact_rows, returned, pruned, legacy,
                   epoch_migration, epoch_drb_and_root, epoch_info>>
    /\ UNCHANGED storeVars
    /\ UNCHANGED coordVars

\* Variant of the round that commits the new offset without the batch insert.
MigrateInsertOffsetOnly ==
    /\ mig.pc = "insert"
    /\ LET rows == mig.rows
           offset == rows[Len(rows)].view
       IN  /\ epoch_migration' =
                 [epoch_migration EXCEPT
                     ![mig.table] = [completed |-> FALSE, migrated_rows |-> offset]]
           /\ mig' = [mig EXCEPT !.offset = offset,
                                 !.pc = IF Len(rows) < BatchSize THEN "complete"
                                        ELSE "select"]
    /\ UNCHANGED <<highest_voted_view, acted, artifact_rows, returned, pruned, legacy,
                   epoch_drb_and_root, epoch_info>>
    /\ UNCHANGED storeVars
    /\ UNCHANGED coordVars

\* The write transaction of one round: the batch is inserted into the v2 table and
\* (false, offset) recorded, offset being the view of the batch's last row; a batch
\* shorter than batch_size leaves the loop.
MigrateInsert ==
    /\ mig.pc = "insert"
    /\ LET table == mig.table
           rows == mig.rows
           offset == rows[Len(rows)].view
           views == BatchViews(rows)
       IN  /\ OnConflict(table) = "error" => views \cap MigratedViews(table) = {}
           /\ anchor_leaf2' =
                 IF table = "anchor_leaf"
                 THEN InsertOrIgnore(anchor_leaf2,
                                     { ConvertRow(table, rows[i]) : i \in 1 .. Len(rows) })
                 ELSE anchor_leaf2
           /\ da_proposal2' =
                 IF table = "da_proposal" THEN da_proposal2 \cup views ELSE da_proposal2
           /\ vid_share2' =
                 IF table = "vid_share" THEN vid_share2 \cup views ELSE vid_share2
           /\ quorum_proposals2' =
                 IF table = "quorum_proposals" THEN quorum_proposals2 \cup views
                 ELSE quorum_proposals2
           /\ quorum_certificate2' =
                 IF table = "quorum_certificate" THEN quorum_certificate2 \cup views
                 ELSE quorum_certificate2
           /\ epoch_migration' =
                 [epoch_migration EXCEPT
                     ![table] = [completed |-> FALSE, migrated_rows |-> offset]]
           /\ mig' = [mig EXCEPT !.offset = offset,
                                 !.pc = IF Len(rows) < BatchSize THEN "complete"
                                        ELSE "select"]
    /\ UNCHANGED <<state_cert, finalized_state_cert, event_stream, gc_opt, pc, gen, ret,
                   appended, handled, rowError, rowErrors, artBudget>>
    /\ UNCHANGED <<highest_voted_view, acted, artifact_rows, returned, pruned, legacy,
                   epoch_drb_and_root, epoch_info>>
    /\ UNCHANGED coordVars

\* The batch insert hits a row that is already in the v2 table and has no conflict
\* clause: the statement fails, the transaction is dropped and the migration returns
\* the error.
MigrateInsertConflict ==
    /\ mig.pc = "insert"
    /\ OnConflict(mig.table) = "error"
    /\ BatchViews(mig.rows) \cap MigratedViews(mig.table) # {}
    /\ mig' = [NoMig EXCEPT !.table = mig.table, !.result = "Err"]
    /\ UNCHANGED <<highest_voted_view, acted, artifact_rows, returned, pruned, legacy,
                   epoch_migration, epoch_drb_and_root, epoch_info>>
    /\ UNCHANGED storeVars
    /\ UNCHANGED coordVars

\* After the loop: (true, offset) is recorded and the migration returns Ok.
MigrateComplete ==
    /\ mig.pc = "complete"
    /\ epoch_migration' =
          [epoch_migration EXCEPT
              ![mig.table] = [completed |-> TRUE, migrated_rows |-> mig.offset]]
    /\ mig' = [NoMig EXCEPT !.table = mig.table, !.result = "Ok",
                            !.info = "updated epoch_migration table"]
    /\ UNCHANGED <<highest_voted_view, acted, artifact_rows, returned, pruned, legacy,
                   epoch_drb_and_root, epoch_info>>
    /\ UNCHANGED storeVars
    /\ UNCHANGED coordVars

\* The process is killed during a migration: its locals are lost, the committed
\* tables stay.
MigrateCrash ==
    /\ mig.pc # "idle"
    /\ mig' = NoMig
    /\ UNCHANGED <<highest_voted_view, acted, artifact_rows, returned, pruned, legacy,
                   epoch_migration, epoch_drb_and_root, epoch_info>>
    /\ UNCHANGED storeVars
    /\ UNCHANGED coordVars

NextMigrate ==
    \/ \E table \in LegacyTables : MigrateStart(table)
    \/ MigrateSelect
    \/ MigrateInsert
    \/ MigrateInsertConflict
    \/ MigrateComplete
    \/ MigrateCrash

(* -------------------------- epoch_drb_and_root -------------------------- *)

\* RECENT_STAKE_TABLES_LIMIT, scaled down.
RecentStakeTablesLimit == 2

\* A column without a value.
Null == <<>>

\* The values written for an epoch.
DrbResultOf(epoch) == <<"drb", epoch>>

BlockHeaderOf(epoch) == <<"header", epoch>>

StakeOf(epoch) == <<"stake", epoch>>

\* The row of an epoch that no call has written yet.
NullRow(epoch) == [epoch |-> epoch, drb_result |-> Null, block_header |-> Null, stake |-> Null]

\* Variant of the upsert that replaces the whole row.
ReplaceRow(table, epoch, column, value) ==
    { r \in table : r.epoch # epoch } \cup { [NullRow(epoch) EXCEPT ![column] = <<value>>] }

\* tx.upsert("epoch_drb_and_root", ["epoch", column], ["epoch"], [(epoch, value)]):
\* the row of the epoch gets the column, its other columns stay.
UpsertColumn(table, epoch, column, value) ==
    LET stored == { r \in table : r.epoch = epoch }
        row == IF stored = {} THEN NullRow(epoch) ELSE CHOOSE r \in stored : TRUE
    IN  { r \in table : r.epoch # epoch } \cup { [row EXCEPT ![column] = <<value>>] }

\* ORDER BY epoch DESC LIMIT $1
RECURSIVE RecentRows(_, _)
RecentRows(table, limit) ==
    IF table = {} \/ limit = 0 THEN <<>>
    ELSE LET top == CHOOSE r \in table : \A o \in table : o.epoch <= r.epoch
         IN  <<top>> \o RecentRows(table \ {top}, limit - 1)

\* The rows of a sequence that have a DRB result, as InitializerEpochInfo.
RECURSIVE WithDrbResult(_)
WithDrbResult(rows) ==
    IF rows = <<>> THEN <<>>
    ELSE LET row == Head(rows)
         IN  (IF row.drb_result = Null THEN <<>>
              ELSE << [epoch |-> row.epoch, drb_result |-> row.drb_result[1],
                       block_header |-> row.block_header] >>)
             \o WithDrbResult(Tail(rows))

\* What load_start_epoch_info returns for a table: the limit is applied by the
\* query, the rows are reversed, and rows without a DRB result are skipped.
StartEpochInfo(table) ==
    WithDrbResult(Reverse(RecentRows(table, RecentStakeTablesLimit)))

AddDrbResult(epoch) ==
    /\ epoch_drb_and_root' =
          UpsertColumn(epoch_drb_and_root, epoch, "drb_result", DrbResultOf(epoch))
    /\ UNCHANGED <<highest_voted_view, acted, artifact_rows, returned, pruned, legacy,
                   epoch_migration, mig, epoch_info>>
    /\ UNCHANGED storeVars
    /\ UNCHANGED coordVars

AddEpochRoot(epoch) ==
    /\ epoch_drb_and_root' =
          UpsertColumn(epoch_drb_and_root, epoch, "block_header", BlockHeaderOf(epoch))
    /\ UNCHANGED <<highest_voted_view, acted, artifact_rows, returned, pruned, legacy,
                   epoch_migration, mig, epoch_info>>
    /\ UNCHANGED storeVars
    /\ UNCHANGED coordVars

\* store_stake: the serialized stake table upserted into the stake column.
StoreStake(epoch) ==
    /\ epoch_drb_and_root' =
          UpsertColumn(epoch_drb_and_root, epoch, "stake", StakeOf(epoch))
    /\ UNCHANGED <<highest_voted_view, acted, artifact_rows, returned, pruned, legacy,
                   epoch_migration, mig, epoch_info>>
    /\ UNCHANGED storeVars
    /\ UNCHANGED coordVars

\* load_start_epoch_info: epoch_info holds the vector the last call returned.
LoadStartEpochInfo ==
    /\ epoch_info' = <<StartEpochInfo(epoch_drb_and_root)>>
    /\ UNCHANGED <<highest_voted_view, acted, artifact_rows, returned, pruned, legacy,
                   epoch_migration, mig, epoch_drb_and_root>>
    /\ UNCHANGED storeVars
    /\ UNCHANGED coordVars

NextEpochInfo ==
    \/ \E epoch \in Epochs : AddDrbResult(epoch)
    \/ \E epoch \in Epochs : AddEpochRoot(epoch)
    \/ \E epoch \in Epochs : StoreStake(epoch)
    \/ LoadStartEpochInfo

(* --------------------------- specifications ---------------------------- *)

\* The store at rest, under the coordinator's runs.
StoreAtRest == InitStoreWith(FALSE, 0) /\ gc_opt.target_retention = DefaultTargetRetention

\* The further tables empty and none of their callers running.
ActedAtRest == highest_voted_view = NoView /\ acted = {}

ArtifactsAtRest == artifact_rows = [t \in DataTables |-> {}]

ReturnedAtRest == returned = NoReturn

PrunedAtRest == pruned = NoPrune

MigrationAtRest ==
    /\ legacy = [t \in LegacyTables |-> {}]
    /\ epoch_migration = [t \in LegacyTables |-> [completed |-> FALSE, migrated_rows |-> 0]]
    /\ mig = NoMig

EpochInfoAtRest == epoch_drb_and_root = {} /\ epoch_info = <<>>

SideAtRest ==
    /\ ActedAtRest
    /\ ArtifactsAtRest
    /\ ReturnedAtRest
    /\ PrunedAtRest
    /\ MigrationAtRest
    /\ EpochInfoAtRest

\* Two concurrent callers; row errors are injected; no artifact is appended.
NextStore == (\E p \in Procs : StoreStep(p)) \/ Crash

\* One caller and the artifact appenders; no row error is injected.
NextStoreSeq == StoreStep("p1") \/ StoreEnv

\* One caller; row errors are injected; no artifact is appended.
NextStoreOne == StoreStep("p1") \/ Crash

InitStore == InitStoreWith(TRUE, 0) /\ InitCoord /\ SideAtRest

InitStoreSeq == InitStoreWith(FALSE, MaxArtifacts) /\ InitCoord /\ SideAtRest

InitCoordinator == StoreAtRest /\ InitCoord /\ SideAtRest

SpecStore == InitStore /\ [][NextStore]_vars

SpecStoreSeq == InitStoreSeq /\ [][NextStoreSeq]_vars

SpecStoreOne == InitStore /\ [][NextStoreOne]_vars

SpecCoord == InitCoordinator /\ [][NextCoord]_vars

\* The membership with or without the genesis stake tables, any storage callback.
InitCaller ==
    /\ StoreAtRest
    /\ SideAtRest
    /\ \E genesis \in {InitialEpochs, {}} : InitCoordWith(genesis, Callbacks)

SpecCaller == InitCaller /\ [][NextCaller]_vars

\* The executor runs every task that can run, the caller keeps retrying, and a
\* root fetch that is tried again and again succeeds.
FairCaller ==
    /\ \A t \in TaskIds : WF_vars(TaskStep(t))
    /\ WF_vars(CallerStep)
    /\ \A t \in TaskIds : SF_vars(CatchupGetRoot(t) /\ tasks'[t].pc = "run")
    /\ \A t \in TaskIds : SF_vars(CatchupAddEpochRoot(t) /\ tasks'[t].pc = "run")

SpecCallerFair == InitCaller /\ [][NextCaller]_vars /\ FairCaller

\* The membership with the genesis stake tables, any storage callback, and a
\* get_epoch_drb that may fail.
InitDrb ==
    /\ StoreAtRest
    /\ SideAtRest
    /\ InitCoordNew(InitialEpochs, Callbacks)
    /\ drbErrors = TRUE

SpecDrb == InitDrb /\ [][NextCaller]_vars

\* The callers of record_action and load_latest_acted_view over an empty store.
InitActed ==
    /\ StoreAtRest
    /\ InitCoord
    /\ SideAtRest

SpecActed == InitActed /\ [][NextActed]_vars

\* The artifact rows with their data, over an empty store.
InitArtifacts ==
    /\ InitStoreWith(FALSE, MaxAppends)
    /\ gc_opt.target_retention = DefaultTargetRetention
    /\ InitCoord
    /\ SideAtRest

SpecArtifacts == InitArtifacts /\ [][NextArtifacts]_vars

\* The store under every configuration of the retention periods.
InitPrune ==
    /\ InitStoreRows(FALSE, MaxArtifacts)
    /\ gc_opt \in PruneConfigs
    /\ InitCoord
    /\ SideAtRest

SpecPrune == InitPrune /\ [][NextPrune]_vars

\* A node that starts with legacy tables and empty v2 tables and runs the migrations.
InitMigrate ==
    /\ StoreAtRest
    /\ InitCoord
    /\ ActedAtRest
    /\ ArtifactsAtRest
    /\ ReturnedAtRest
    /\ PrunedAtRest
    /\ EpochInfoAtRest
    /\ legacy \in LegacyStores
    /\ epoch_migration = [t \in LegacyTables |-> [completed |-> FALSE, migrated_rows |-> 0]]
    /\ mig = NoMig

SpecMigrate == InitMigrate /\ [][NextMigrate]_vars

InitEpochInfo == StoreAtRest /\ InitCoord /\ SideAtRest

SpecEpochInfo == InitEpochInfo /\ [][NextEpochInfo]_vars

(* ------------------------ coordinator properties ----------------------- *)

\* The spawned tasks for epoch that hold its map entry: past the critical section
\* and not yet ended.
InFlight(epoch) ==
    { t \in TaskIds : tasks[t].epoch = epoch /\ tasks[t].pc \in {"run", "send", "remove"} }

\* C1: the check-and-insert on catchup_map is atomic: at every instant at most one
\* spawned catchup task per epoch is in flight, and it is the one whose receiver
\* the map holds; a task that found an entry has returned without running catchup.
C1OneTaskInFlight ==
    \A epoch \in Epochs :
        /\ Cardinality(InFlight(epoch)) <= 1
        /\ \A t \in InFlight(epoch) :
              ContainsKey(catchup_map, epoch) /\ Get(catchup_map, epoch) = t
        /\ \A t \in TaskIds :
              (tasks[t].epoch = epoch /\ tasks[t].pc = "skipped") =>
                  tasks[t].stack = <<>> /\ t \notin drb_results[epoch]

\* C1 witness: two tasks were spawned for one epoch; one runs catchup, the other
\* found the entry and returned.
C1Witness ==
    \E t1 \in TaskIds : \E t2 \in TaskIds :
        /\ tasks[t1].epoch = tasks[t2].epoch
        /\ tasks[t1].pc = "run"
        /\ tasks[t2].pc = "skipped"

\* C2: when catchup for an epoch is requested more than once, its work runs
\* once: add_drb_result is applied for the epoch by at most one execution of catchup.
C2WorkOnce == \A epoch \in Epochs : Cardinality(drb_results[epoch]) <= 1

(* --------------------------- store properties -------------------------- *)

\* Steps of one caller, read off its position.
Committing(p) == pc[p] = "write" /\ pc'[p] = "collect"

Returning(p) == pc[p] # "idle" /\ pc'[p] = "idle" /\ ret'[p] # "none"

Crashed == \E p \in Procs : pc[p] # "idle" /\ pc'[p] = "idle" /\ ret'[p] = "none"

Pruning == \E p \in Procs : pc[p] = "prune" /\ pc'[p] = "idle"

ArtifactTables == <<vid_share2, da_proposal2, quorum_proposals2, quorum_certificate2>>

ArtifactViewsStored ==
    vid_share2 \cup da_proposal2 \cup quorum_proposals2 \cup quorum_certificate2
        \cup RowViews(state_cert)

\* A chain is consecutive by block height.
Consecutive(leaves) ==
    \A i \in 1 .. Len(leaves) - 1 : leaves[i + 1].height = leaves[i].height + 1

\* The leaves a new invocation of the generator collects from the committed tables.
RetryLeaves ==
    CollectLeaves(anchor_leaf2, event_stream,
                  Len(SelectLeaves(anchor_leaf2, QueryFromView(event_stream))))

\* C3: last_processed_view never decreases: every committed value of the marker is
\* greater than or equal to the value committed before it, also with two concurrent
\* invocations of the generator and across crashes.
C3MarkerNeverDecreases == [][event_stream' >= event_stream]_storeVars

\* One step of the store, as C4 reads it.
C4Step ==
    /\ event_stream' # event_stream => event_stream' \in handled
    /\ \A p \in Procs :
        Committing(p) =>
            /\ handled' = handled
            /\ RowViews(SeqToSet(gen[p].leaves)) \subseteq handled
            /\ \A row \in anchor_leaf2 :
                InRange(row.view, ChainFromView(gen[p].leaves),
                        ChainToView(gen[p].leaves)) => row.view \in handled
            /\ event_stream' = ChainToView(gen[p].leaves)
    /\ ~Pruning =>
            \A row \in anchor_leaf2 \ anchor_leaf2' :
                row.view \in handled /\ row.view < event_stream'
    /\ Crashed => UNCHANGED dbVars
    /\ \A p \in Procs :
        (/\ Crashed
         /\ pc[p] = "write"
         /\ event_stream = gen[p].last_processed_view
         /\ SeqToSet(gen[p].leaves) \subseteq anchor_leaf2) =>
            SeqToSet(gen[p].leaves) \subseteq SeqToSet(RetryLeaves')

\* C4: the generator emits, then updates the marker, then deletes. The marker only
\* moves to a view whose leaf the consumer has handled; at a commit the consumer has
\* handled the whole chain and every stored leaf of its range; outside the pruner a
\* leaf row disappears only once handled and below the new marker; a crash changes
\* no table, and after a crash between emission and marker update the next
\* invocation collects the leaves of the unmarked event again (as long as the
\* marker and these rows are as the crashed invocation read them).
C4EmitMarkDelete == [][C4Step]_storeVars

\* C4 witness: an event whose leaves the consumer has all handled already is about
\* to be emitted again, the marker not having reached it.
C4Witness ==
    \E p \in Procs :
        /\ pc[p] = "emit"
        /\ RowViews(SeqToSet(gen[p].leaves)) \subseteq handled
        /\ event_stream < ChainFromView(gen[p].leaves)
        /\ Len(gen[p].leaves) = 2

\* One step of the store, as C5 reads it.
C5Step ==
    \A p \in Procs :
        /\ (pc[p] = "idle" /\ pc'[p] = "read_marker") =>
              /\ anchor_leaf2 \subseteq anchor_leaf2'
              /\ appended' # appended =>
                    [view |-> appended'.view, height |-> appended'.height]
                        \in anchor_leaf2'
              /\ RowViews(anchor_leaf2' \ anchor_leaf2) =
                    { v \in RowViews(anchor_leaf2') : v > appended.view }
        /\ (ret'[p] = "Err" /\ ret[p] # "Err") =>
              pc[p] = "idle" /\ pc'[p] = "idle" /\ UNCHANGED dbVars
        /\ Returning(p) => ret'[p] = "Ok"
        /\ (Returning(p) /\ pc[p] = "emit") => UNCHANGED dbVars

\* C5: append_decided_leaves commits the given leaves before event generation; an
\* error is returned only by the failed write, which stores nothing; a call that
\* got past the write returns Ok, and when it ends in the generator the tables
\* are as the failure left them.
C5LeavesDurable == [][C5Step]_storeVars

\* C5 witness: a call has returned Ok with its leaves stored and nothing of them
\* processed.
C5Witness ==
    \E p \in Procs :
        /\ pc[p] = "idle"
        /\ ret[p] = "Ok"
        /\ Cardinality(anchor_leaf2) = 2
        /\ event_stream = NoView
        /\ handled = {}
        /\ ~rowError

\* One step of the store, as C6 reads it.
C6Step ==
    \A p \in Procs :
        (Returning(p) /\ pc[p] = "emit") =>
            /\ UNCHANGED dbVars
            /\ DecideEvent(RetryLeaves') = DecideEvent(gen[p].leaves)

\* C6: a consumer error leaves the marker and every table as they were, writes no
\* finalized_state_cert, and the event a new invocation builds from the tables has
\* the leaf chain and QC of the event that failed.
C6ConsumerError == [][C6Step]_storeVars

\* C6 witness: the call has returned after the consumer failed on a chain with a
\* state cert in its range; leaves and state cert are stored, nothing is finalized.
C6Witness ==
    /\ pc["p1"] = "idle"
    /\ ret["p1"] = "Ok"
    /\ event_stream = NoView
    /\ handled = {}
    /\ finalized_state_cert = {}
    /\ anchor_leaf2 # {}
    /\ \E c \in state_cert : \E row \in anchor_leaf2 : c.view <= row.view

C7Step ==
    \A p \in Procs :
        /\ pc'[p] \in {"emit", "write"} => Consecutive(gen'[p].leaves)
        /\ Committing(p) =>
              LET to_view == ChainToView(gen[p].leaves)
              IN  /\ \A i \in 1 .. Len(ArtifactTables) :
                        { v \in ArtifactTables[i] : v > to_view }
                            = { v \in ArtifactTables'[i] : v > to_view }
                  /\ { c \in state_cert : c.view > to_view }
                        = { c \in state_cert' : c.view > to_view }
                  /\ { r \in anchor_leaf2 : r.view >= to_view }
                        = { r \in anchor_leaf2' : r.view >= to_view }
        /\ (pc[p] = "collect" /\ pc'[p] = "prune") =>
              RowViews(anchor_leaf2') \subseteq handled'

C8MarkerAtPrefix ==
    (pc["p1"] = "prune" /\ ~rowError) => event_stream = appended.prefix

\* C8: after calls whose generator ran to its end without a row error, the marker
\* is the newest view of all appended leaves.
C8MarkerAtNewest ==
    (pc["p1"] = "prune" /\ ~rowError) => event_stream = appended.view

\* C8 witness: the generator has ended with the marker beyond a height gap.
C8Witness ==
    /\ pc["p1"] = "prune"
    /\ ~rowError
    /\ appended.gap
    /\ event_stream = appended.view
    /\ event_stream > appended.prefix

\* C9: the anchor_leaf2 row with the maximum view is never removed, neither by
\* the generator's deletes nor by the pruner: a non-empty table stays non-empty
\* and its maximum view does not go down.
C9AnchorKept ==
    [][anchor_leaf2 # {} =>
          /\ anchor_leaf2' # {}
          /\ MaxOf(RowViews(anchor_leaf2')) >= MaxOf(RowViews(anchor_leaf2))]_storeVars

\* One step of the store, as C10 reads it.
C10Step ==
    \A p \in Procs :
        Committing(p) =>
            LET from_view == ChainFromView(gen[p].leaves)
                to_view == ChainToView(gen[p].leaves)
            IN  /\ \A v \in ArtifactViewsStored' : ~InRange(v, from_view, to_view)
                /\ \A r \in anchor_leaf2' : ~(r.view >= from_view /\ r.view < to_view)
                /\ \E r \in anchor_leaf2' : r.view = to_view

\* C10: once the marker of a decide event over [from_view, to_view] is committed,
\* no artifact table has a row in the range, anchor_leaf2 has no row in
\* [from_view, to_view) and anchor_leaf2 holds the row at to_view.
C10RangeProcessed == [][C10Step]_storeVars

\* C11: every leaf stored in anchor_leaf2 (above the genesis view, whose payload is
\* the empty one) has its payload embedded or has a DA proposal stored at its view.
C11PayloadAvailable ==
    \A row \in anchor_leaf2 :
        row.view # GenesisView => PayloadEmbedded(row) \/ row.view \in da_proposal2

\* One step of the store, as C12 reads it.
C12Step ==
    /\ handled' # handled => \E q \in Procs : pc[q] = "emit" /\ pc'[q] = "write"
    /\ \A p \in Procs :
        /\ (pc[p] = "emit" /\ pc'[p] = "write") =>
              LET event == DecideEvent(gen[p].leaves)
                  chain == event.leaf_chain
              IN  /\ Len(chain) = Len(gen[p].leaves)
                  /\ Len(chain) >= 1
                  /\ \A i \in 1 .. Len(chain) - 1 : chain[i] > chain[i + 1]
                  /\ SeqToSet(chain) = RowViews(SeqToSet(gen[p].leaves))
                  /\ Consecutive(gen[p].leaves)
                  /\ event.qc = chain[1]
                  /\ event.qc = MaxOf(SeqToSet(chain))
                  /\ event.view_number = ChainToView(gen[p].leaves)
                  /\ event.view_number = chain[1]
                  /\ event.block_size = "None"
                  /\ handled' = handled \cup SeqToSet(chain)
        /\ pc[p] = "write" => pc'[p] # "emit"
        /\ (pc'[p] = "emit" /\ pc[p] # "emit") =>
              /\ pc[p] = "collect"
              /\ \A leaf \in SeqToSet(gen'[p].leaves) :
                    leaf.view > gen[p].last_processed_view

\* C12: the Decide event handed to the consumer carries the leaves of one
\* consecutive chain, highest view first, the QC stored with the highest-view leaf,
\* view_number = to_view and no block size; the consumer is invoked once per
\* collected chain, and each chain of an invocation lies above the one before.
C12DecideEvent == [][C12Step]_storeVars

\* C12 witness: the consumer has handled an event of three leaves.
C12Witness ==
    \E p \in Procs :
        /\ pc[p] = "write"
        /\ Len(gen[p].leaves) = 3
        /\ RowViews(SeqToSet(gen[p].leaves)) \subseteq handled

\* One step of the store, as C13 reads it.
C13Step ==
    /\ (RetryLeaves = <<>> /\ appended' = appended) => RetryLeaves' = <<>>
    /\ \A p \in Procs :
        /\ Committing(p) =>
              \A leaf \in SeqToSet(RetryLeaves') : leaf.view > ChainToView(gen[p].leaves)
        /\ (pc[p] = "collect" /\ pc'[p] = "prune") => RetryLeaves' = <<>>
        /\ (pc[p] = "idle" /\ pc'[p] = "read_marker" /\ appended' = appended) =>
              UNCHANGED dbVars
        /\ (pc[p] = "collect" /\ RetryLeaves = <<>>
                /\ gen[p].last_processed_view = event_stream) =>
              /\ pc'[p] \in {"prune", "idle"}
              /\ handled' = handled
              /\ UNCHANGED dbVars

\* C13: a second invocation of the generator with no new leaves emits nothing: a
\* commit leaves no leaf of its chain to be collected again, an invocation that ran
\* to its end leaves no leaf above the marker, none turns up until leaves are
\* appended, and an invocation that finds none hands nothing to the consumer,
\* deletes nothing and leaves the marker as it is.
C13SecondCallEmitsNothing == [][C13Step]_storeVars

\* C13 witness: an invocation has read the marker of an event the consumer handled
\* and finds no leaf above it, while the leaf at the marker is stored.
C13Witness ==
    /\ pc["p1"] = "collect"
    /\ event_stream # NoView
    /\ gen["p1"].last_processed_view = event_stream
    /\ event_stream \in handled
    /\ event_stream \in RowViews(anchor_leaf2)
    /\ RetryLeaves = <<>>

(* ------------------- coordinator properties, continued ------------------ *)

\* The caller has asked membership_for_epoch for epoch, over the genesis stake tables.
Requested(epoch) ==
    /\ call.fn = "membership_for_epoch"
    /\ call.epoch = epoch
    /\ InitialEpochs \subseteq stake_tables

\* C14: an epoch from 2 on that is requested through membership_for_epoch by a
\* caller who retries gets its stake table and its randomized stake table in the
\* end, and the call then returns Ok (as long as tasks can be spawned).
C14EventuallyRandomized ==
    [](FreeTasks # {}) =>
        \A epoch \in 2 .. MaxEpoch :
            Requested(epoch) ~>
                (epoch \in stake_tables /\ epoch \in randomized /\ call.ret = "Ok")

\* Task t holds the map entry of its epoch.
HoldsEntry(t) == [epoch |-> tasks[t].epoch, tx |-> t] \in catchup_map

\* The catchup of task t has failed and its result is to be broadcast.
Failed(t) == tasks[t].pc = "send" /\ tasks[t].result = "Err"

\* C18: when the catchup of a spawned task has failed, the entry of its epoch is
\* removed from catchup_map in the end, whether or not a caller waits on the
\* broadcast.
C18FailureClearsEntry == \A t \in TaskIds : Failed(t) ~> ~HoldsEntry(t)

\* The spawned catchup of the highest epoch has returned Ok.
TopSucceeded == \E t \in TaskIds : tasks[t].epoch = MaxEpoch /\ tasks[t].result = "Ok"

\* The epochs are filled in ascending order, by at most one task in flight per epoch.
Sequential ==
    /\ \A epoch \in randomized \ InitialEpochs : 2 .. epoch \subseteq randomized
    /\ \A epoch \in Epochs : Cardinality(InFlight(epoch)) <= 1

C16Step ==
    call' # call =>
        /\ UNCHANGED <<stake_tables, randomized, catchup_map>>
        /\ call.pc = "idle" =>
              /\ UNCHANGED tasks
              /\ IF call'.epoch = NoEpoch
                 THEN call'.pc = "idle" /\ call'.ret = "Ok"
                 ELSE IF call'.ret = "Ok"
                      THEN /\ call'.pc = "idle"
                           /\ call'.fn = "membership_for_epoch" =>
                                 call'.epoch \in randomized
                           /\ call'.fn = "stake_table_for_epoch" =>
                                 call'.epoch \in stake_tables
                      ELSE /\ call'.pc = "lock"
                           /\ call'.ret = "none"
                           /\ call'.fn = "membership_for_epoch" =>
                                 call'.epoch \notin randomized
                           /\ call'.fn = "stake_table_for_epoch" =>
                                 call'.epoch \notin stake_tables
        /\ call.pc = "lock" =>
              /\ call'.pc = "idle"
              /\ IF ContainsKey(catchup_map, call.epoch)
                 THEN call'.ret = "InProgress" /\ UNCHANGED tasks
                 ELSE /\ call'.ret = "Starting"
                      /\ \E t \in TaskIds :
                            /\ tasks[t] = NoTask
                            /\ tasks' = [tasks EXCEPT
                                   ![t] = [NoTask EXCEPT !.epoch = call.epoch,
                                                         !.pc = "start"]]

C17Step ==
    \A t \in TaskIds :
        (/\ tasks[t].pc = "run"
         /\ Top(tasks[t].stack).fn = "catchup"
         /\ Top(tasks[t].stack).epoch \in {0, 1}
         /\ tasks'[t] # tasks[t]) =>
            /\ Top(tasks[t].stack).pc = "root"
            /\ tasks'[t] = [tasks[t] EXCEPT !.pc = "send", !.result = "Err",
                                            !.stack = <<>>]
            /\ \A u \in TaskIds \ {t} : tasks'[u] = tasks[u]
            /\ UNCHANGED <<stake_tables, randomized, drb_results, drb_storage,
                           catchup_map>>

\* C17: catchup for epoch 0 or 1 returns an error in its first step: no root is
\* fetched or added, no DRB result computed, stored or added, no lower epoch waited
\* for, no task spawned, and the membership is unchanged.
C17GenesisCatchupFails == [][C17Step]_coordVars

\* C17 witness: without the genesis stake tables the catchup of a later epoch has
\* gone down to epoch 0 or 1 and failed.
C17Witness ==
    \E t \in TaskIds :
        /\ tasks[t].epoch >= 2
        /\ tasks[t].result = "Err"
        /\ stake_tables = {}

\* C19: once a spawned catchup task has ended after its broadcast, catchup_map has
\* no entry of it, whether its catchup succeeded or failed.
C19EntryRemoved == \A t \in TaskIds : tasks[t].pc = "done" => ~HoldsEntry(t)

C21Step ==
    /\ highest_voted_view' >= highest_voted_view
    /\ IF acted' = {} THEN highest_voted_view' = NoView
                      ELSE AsU64(highest_voted_view') = MaxOf(acted')
    /\ (returned'.op = "record_action"
            /\ ~(returned'.arg[1] \in {"Propose", "Vote"} /\ returned'.status = "Ok")) =>
          UNCHANGED <<highest_voted_view, acted>>
    /\ (returned'.op = "record_action" /\ returned'.status = "Ok"
            /\ returned'.arg[1] \in {"Propose", "Vote"}) =>
          returned'.arg[2] \in acted'
    /\ returned'.op = "load_latest_acted_view" =>
          /\ UNCHANGED <<highest_voted_view, acted>>
          /\ returned'.value = (IF acted = {} THEN <<>> ELSE <<MaxOf(acted)>>)

\* C21: highest_voted_view is a MAX-monotonic register: under any interleaving of
\* record_action calls the stored view never decreases and is the maximum of the
\* views recorded with Propose or Vote, which is what load_latest_acted_view
\* returns; a call with any other action, and a failed call, leave it unchanged.
C21MaxRegister == [][C21Step]_sideVars

\* C21 witness: a Vote for a lower view has returned Ok after a higher view was
\* recorded, and the stored view is still the higher one.
C21Witness ==
    /\ returned.op = "record_action"
    /\ returned.status = "Ok"
    /\ returned.arg[1] = "Vote"
    /\ returned.arg[2] < highest_voted_view
    /\ Cardinality(acted) >= 2

\* The table an appender or a loader works on, and what a load of an appended
\* artifact returns: a VID share comes back in the V1 variant of VidDisperseShare.
TableOf(op) ==
    IF op \in {"append_vid2", "load_vid_share"} THEN "vid_share2"
    ELSE IF op \in {"append_da2", "load_da_proposal"} THEN "da_proposal2"
    ELSE "quorum_proposals2"

LoadOf(rows, table, view) == Decoded(FetchOptional(SelectByView(rows[table], view)))

AsLoaded(op, x) == IF op = "append_vid2" THEN [variant |-> "V1", share |-> x] ELSE x

\* One step on the artifact rows, as C22 reads it.
C22Step ==
    /\ returned'.op \in {"append_vid2", "append_da2", "append_quorum_proposal2"} =>
          LET x == returned'.arg[1]
              table == TableOf(returned'.op)
          IN  /\ LoadOf(artifact_rows', table, x.view) = <<AsLoaded(returned'.op, x)>>
              /\ Cardinality({ r \in artifact_rows'[table] : r.view = x.view }) = 1
              /\ \A view \in Views \ {x.view} :
                    LoadOf(artifact_rows', table, view) = LoadOf(artifact_rows, table, view)
              /\ \A other \in DataTables \ {table, "quorum_certificate2"} :
                    artifact_rows'[other] = artifact_rows[other]
    /\ returned'.op \in {"load_vid_share", "load_da_proposal", "load_quorum_proposal"} =>
          /\ artifact_rows' = artifact_rows
          /\ returned'.value = LoadOf(artifact_rows, TableOf(returned'.op), returned'.arg[1])
          /\ returned'.status = "Err" <=>
                (returned'.op = "load_quorum_proposal" /\ returned'.value = <<>>)

\* C22: for VID shares, DA proposals and quorum proposals, after append(x) a load
\* of x's view returns x (a VID share in the V1 variant of VidDisperseShare); a
\* second append at the same view replaces the first, the table has one row for
\* the view, and the rows at other views load as before; a load changes nothing.
C22RoundTrip == [][C22Step]_sideVars

\* C22 witness: a second DA proposal has been appended at a view and the load of
\* that view has returned it, not the first one.
C22Witness ==
    /\ returned.op = "load_da_proposal"
    /\ artBudget = 0
    /\ Cardinality(artifact_rows["da_proposal2"]) = 1
    /\ Len(returned.value) = 1

\* One step of a fetch provider, as C28 reads it.
C28Step ==
    returned'.op \in {"fetch_vid_common", "fetch_payload", "fetch_leaf"} =>
        LET req == returned'.arg[1]
            fault == returned'.arg[2]
            table == IF returned'.op = "fetch_vid_common" THEN "vid_share2"
                     ELSE IF returned'.op = "fetch_payload" THEN "da_proposal2"
                     ELSE "quorum_proposals2"
            stored == \E r \in artifact_rows[table] : r.hash = req
            certified == \E r \in artifact_rows["quorum_certificate2"] : r.hash = req
        IN  /\ returned'.status = "Ok"
            /\ UNCHANGED <<artifact_rows, dbVars>>
            /\ fault # "none" => returned'.value = <<>>
            /\ ~stored => returned'.value = <<>>
            /\ (returned'.op = "fetch_leaf" /\ ~certified) => returned'.value = <<>>
            /\ (fault = "none" /\ stored /\ (returned'.op = "fetch_leaf" => certified)) =>
                  Len(returned'.value) = 1

\* C28: the fetch providers for VidCommon, Payload and Leaf never return an error:
\* a transaction that cannot be opened, a failed query, a row that does not decode,
\* an invalid leaf and a missing row each yield None, a stored row without a
\* failure yields its value, and a fetch modifies no table.
C28FetchNeverFails == [][C28Step]_vars

\* C28 witness: a leaf whose proposal and QC are stored was requested, the decode
\* failed, and the provider returned None.
C28Witness ==
    /\ returned.op = "fetch_leaf"
    /\ returned.arg[2] = "decode"
    /\ returned.value = <<>>
    /\ \E r \in artifact_rows["quorum_proposals2"] : r.hash = returned.arg[1]
    /\ \E r \in artifact_rows["quorum_certificate2"] : r.hash = returned.arg[1]

\* The rows of the five pruned tables, by view.
PrunedTables ==
    <<RowViews(anchor_leaf2), vid_share2, da_proposal2, quorum_proposals2,
      quorum_certificate2>>

\* A decide without leaves has pruned in this step.
PrunedNow == pruned'.count = pruned.count + 1

\* One step of the store, as C23 reads it.
C23Step ==
    PrunedNow =>
        LET target == SaturatingSub(pruned'.view, gc_opt.target_retention)
            minimum == SaturatingSub(pruned'.view, gc_opt.minimum_retention)
            over == pruned'.usage > gc_opt.target_usage
        IN  \A i \in 1 .. Len(PrunedTables) :
                /\ PrunedTables'[i] \subseteq PrunedTables[i]
                /\ \A view \in PrunedTables[i] :
                      /\ view < target => view \notin PrunedTables'[i]
                      /\ (target <= view /\ view < minimum) =>
                            (view \notin PrunedTables'[i] <=> over)
                      /\ (target <= view /\ minimum <= view) => view \in PrunedTables'[i]

\* C23: prune at current view v deletes from the five tables every row with
\* view < v - target_retention (saturating), deletes the rows with
\* v - target_retention <= view < v - minimum_retention if and only if the usage
\* measured after the first step exceeds target_usage, and keeps every other row.
C23DualThreshold == [][C23Step]_vars

\* C23 witness: an artifact was appended and no decide event was generated; a
\* prune whose target retention reaches back before view 0 has found the usage
\* above target and deleted the artifact as older than the minimum retention.
C23Witness ==
    /\ pruned.count >= 1
    /\ artBudget < MaxArtifacts
    /\ handled = {}
    /\ event_stream = NoView
    /\ vid_share2 \cup da_proposal2 \cup quorum_proposals2 \cup quorum_certificate2 = {}
    /\ pruned.usage > gc_opt.target_usage
    /\ gc_opt.target_retention >= pruned.view
    /\ gc_opt.minimum_retention < gc_opt.target_retention

\* One step of the store, as C24 reads it.
C24Step ==
    PrunedNow =>
        \A i \in 1 .. Len(PrunedTables) :
            \A view \in PrunedTables[i] :
                view >= pruned'.view - gc_opt.minimum_retention =>
                    view \in PrunedTables'[i]

\* C24: under every configuration of target_retention, minimum_retention and
\* target_usage and every usage, prune at view v deletes no row whose view is
\* v - minimum_retention or higher.
C24MinimumRetentionBound == [][C24Step]_vars

\* One step of the migrations on one legacy table, as C25 reads it.
C25StepOf(table) ==
    epoch_migration[table].completed =>
        /\ epoch_migration'[table] = epoch_migration[table]
        /\ MigratedViews(table)' = MigratedViews(table)
        /\ (mig.pc = "idle" /\ mig'.table = table /\ mig' # mig) =>
              mig'.pc = "idle" /\ mig'.result = "Ok"

\* C25: once epoch_migration.completed is true for one of the five legacy tables, a
\* further run of its migration reads the marker and returns Ok at once, and no
\* step changes the v2 table or the marker of that table: completed stays true.
C25SecondRunNoOp == [][\A table \in LegacyTables : C25StepOf(table)]_vars

\* C25 witness: a run of the vid share migration has found the migration completed
\* and returned Ok, with every legacy row in the v2 table.
C25Witness ==
    /\ mig.table = "vid_share"
    /\ mig.info = "already migrated"
    /\ mig.result = "Ok"
    /\ epoch_migration["vid_share"].completed
    /\ legacy["vid_share"] # {}
    /\ MigratedViews("vid_share") = RowViews(legacy["vid_share"])

\* C26: a migration that has returned has returned Ok, with completed = true, every
\* legacy row in the v2 table and as many v2 rows as legacy rows, for any number of
\* legacy rows and also when earlier runs were killed after a batch commit.
C26MigrationTotal ==
    (mig.pc = "idle" /\ mig.table # "none") =>
        /\ mig.result = "Ok"
        /\ epoch_migration[mig.table].completed
        /\ MigratedViews(mig.table) = RowViews(legacy[mig.table])
        /\ Cardinality(MigratedViews(mig.table)) = Cardinality(legacy[mig.table])

\* The epochs of the rows that have a DRB result.
EpochsWithDrb(table) == { r.epoch : r \in { x \in table : x.drb_result # Null } }

\* The n highest elements of a set of epochs.
RECURSIVE Highest(_, _)
Highest(S, n) ==
    IF S = {} \/ n = 0 THEN {}
    ELSE {MaxOf(S)} \cup Highest(S \ {MaxOf(S)}, n - 1)

\* One step of the epoch table, as C27 reads it.
C27Step ==
    epoch_info' # epoch_info =>
        LET result == epoch_info'[1]
            with_drb == EpochsWithDrb(epoch_drb_and_root)
        IN  /\ \A i \in 1 .. Len(result) - 1 : result[i].epoch < result[i + 1].epoch
            /\ Cardinality(with_drb) >= RecentStakeTablesLimit =>
                  /\ Len(result) = RecentStakeTablesLimit
                  /\ { result[i].epoch : i \in 1 .. Len(result) } =
                        Highest(with_drb, RecentStakeTablesLimit)

\* C27: load_start_epoch_info returns, in ascending epoch order, the N most recent
\* epochs that have a DRB result (N = RECENT_STAKE_TABLES_LIMIT): whenever at least N
\* rows have a DRB result the result has N entries, whatever newer rows exist
\* without one.
C27RecentEpochsWithDrb == [][C27Step]_vars

\* One step of the store, as C29 reads it.
C29Step ==
    \A p \in Procs :
        (pc[p] = "emit" /\ pc'[p] # "emit") =>
            LET chain == LeafChain(gen[p].leaves, gen[p].vid_shares, gen[p].da_proposals)
            IN  /\ Len(chain) = Len(gen[p].leaves)
                /\ \A i \in 1 .. Len(chain) :
                      LET info == chain[i]
                          view == gen[p].leaves[Len(chain) + 1 - i].view
                      IN  /\ info.leaf = view
                          /\ view \in da_proposal2 => info.payload = "da"
                          /\ (view \notin da_proposal2 /\ view = GenesisView) =>
                                info.payload = "empty"
                          /\ (view \notin da_proposal2 /\ view # GenesisView) =>
                                info.payload = "unfilled"
                          /\ view \in vid_share2 => info.vid_share = <<view>>
                          /\ view \notin vid_share2 => info.vid_share = <<>>

\* C29: in a Decide event the leaf of view v carries the payload of the DA proposal
\* stored at view v when there is one, the empty payload when there is none and v is
\* the genesis view, and stays unfilled otherwise, the leaf being part of the event in
\* every case; the VID share of view v is attached when stored and absent otherwise.
C29PayloadFill == [][C29Step]_storeVars

\* C29 witness: an event is being handed to the consumer with two leaves, the newer
\* one at a view with neither DA proposal nor VID share, although an artifact is
\* stored for the other view.
C29Witness ==
    \E p \in Procs :
        /\ pc[p] = "emit"
        /\ Len(gen[p].leaves) = 2
        /\ gen[p].vid_shares \cup gen[p].da_proposals # {}
        /\ gen[p].leaves[2].view # GenesisView
        /\ gen[p].leaves[2].view \notin gen[p].da_proposals
        /\ gen[p].leaves[2].view \notin gen[p].vid_shares

\* One step of the store, as C30 reads it.
C30Step ==
    \A p \in Procs :
        (Returning(p) /\ pc[p] = "write") =>
            /\ event_stream' = ChainToView(gen[p].leaves)
            /\ \A leaf \in SeqToSet(RetryLeaves') :
                  leaf.view > ChainToView(gen[p].leaves)

\* C30: when a statement of the generator's write transaction fails after the
\* marker update (a row deletion or the commit), the call returns with
\* last_processed_view = to_view in effect, and the next invocation collects no
\* leaf of the range again.
C30DeleteFailureTolerated == [][C30Step]_storeVars

\* One step of the store, as the code has it.
C30RolledBackStep ==
    \A p \in Procs :
        (Returning(p) /\ pc[p] = "write") =>
            /\ UNCHANGED dbVars
            /\ ret'[p] = "Ok"
            /\ pc'[p] = "idle"
            /\ (/\ event_stream = gen[p].last_processed_view
                /\ SeqToSet(gen[p].leaves) \subseteq anchor_leaf2) =>
                   /\ SeqToSet(gen[p].leaves) \subseteq SeqToSet(RetryLeaves')
                   /\ \A leaf \in SeqToSet(gen[p].leaves) : leaf.view > event_stream'

\* C30 as the code has it: when a statement of the generator's write transaction
\* fails after the marker update, the whole transaction is rolled back: the marker
\* and every table are as before it, the call returns Ok without pruning, and the
\* next invocation collects the leaves of the range again, emits their event again
\* and retries the marker update and the deletions.
C30DeleteFailureRolledBack == [][C30RolledBackStep]_storeVars

\* C30 witness: a call has returned Ok while leaves that the consumer has handled are
\* still above the marker, together with an artifact of their range: the write
\* transaction of their event failed and left marker and rows in place.
C30Witness ==
    /\ pc["p1"] = "idle"
    /\ ret["p1"] = "Ok"
    /\ RetryLeaves # <<>>
    /\ RowViews(SeqToSet(RetryLeaves)) \subseteq handled
    /\ \E v \in vid_share2 \cup da_proposal2 \cup quorum_proposals2 :
          InRange(v, ChainFromView(RetryLeaves), ChainToView(RetryLeaves))

(* ------------------- further coordinator properties ------------------- *)

\* One step of the tasks, as C31 reads it.
C31Step ==
    \A t \in TaskIds :
        (/\ Running(t, "catchup", "add_root")
         /\ tasks'[t] # tasks[t]
         /\ t \notin membership_readers') =>
            /\ tasks'[t] = [tasks[t] EXCEPT !.pc = "send", !.result = "Err",
                                            !.stack = <<>>]
            /\ UNCHANGED <<stake_tables, randomized, drb_results, drb_storage, epoch_drbs,
                           drb_calls>>

\* C31: when catchup(e) does not get the root leaf through the membership of epoch
\* e - 2, it returns the error at once and so do its awaiters: add_epoch_root(e), the
\* storage callback and add_drb_result(e) are not applied, and the stake tables and
\* randomized stake tables are as before the attempt.
C31RootFetchFailure == [][C31Step]_coordVars

\* C31 witness: the catchup of epoch 2 has failed although the stake table of its
\* root epoch 0 is there: the membership has neither table for epoch 2.
C31Witness ==
    \E t \in TaskIds :
        /\ tasks[t].epoch = 2
        /\ tasks[t].result = "Err"
        /\ 0 \in stake_tables
        /\ 2 \notin stake_tables
        /\ 2 \notin randomized

\* The seed of a byte vector: its first bytes, at most SeedLen of them, then zeroes.
SeedOf(vec) ==
    LET len == IF Len(vec) < SeedLen THEN Len(vec) ELSE SeedLen
    IN  SubSeq(vec, 1, len) \o [ i \in 1 .. SeedLen - len |-> 0 ]

\* The frame of task t caught up one step further, by a step of its own.
Stepped(t, at) == Running(t, "catchup", at) /\ tasks'[t] # tasks[t]

\* The catchup on top of task t's stack returns Ok in this step.
ReturnsOk(t) ==
    /\ Len(tasks'[t].stack) = Len(tasks[t].stack) - 1
    /\ tasks'[t].result # "Err"
    /\ Len(tasks[t].stack) = 1 => tasks'[t].result = "Ok" /\ tasks'[t].pc = "send"

\* One step of a catchup at its DRB result, as C32 reads it.
C32Step ==
    \A t \in TaskIds :
        LET frame == Top(tasks[t].stack)
        IN  /\ Stepped(t, "add_drb") =>
                  /\ Len(tasks'[t].stack) = Len(tasks[t].stack)
                  /\ tasks'[t].pc = "run"
                  /\ Top(tasks'[t].stack).pc = "write_drb"
                  /\ Top(tasks'[t].stack).drb \in
                        { <<FetchedDrbResult(frame.epoch)>>,
                          <<ComputeDrbResult(SeedOf(SerializedSignatures(frame.epoch - 2)))>> }
            /\ Stepped(t, "write_drb") =>
                  /\ frame.epoch \in randomized'
                  /\ epoch_drbs'[frame.epoch] = frame.drb
                  /\ ReturnsOk(t)

CallbackCall(t, epoch, drb) == [epoch |-> epoch, drb |-> drb, task |-> t]

\* One step of a catchup at its DRB result, as C33 reads it.
C33Step ==
    \A t \in TaskIds :
        LET frame == Top(tasks[t].stack)
            next == Top(tasks'[t].stack)
        IN  /\ Stepped(t, "add_drb") =>
                  /\ next.pc = "write_drb"
                  /\ UNCHANGED <<randomized, epoch_drbs>>
                  /\ IF storage_add_drb_result_fn = "None"
                     THEN next.cb = 0 /\ UNCHANGED <<drb_calls, drb_storage>>
                     ELSE /\ next.cb = 1
                          /\ drb_calls' =
                                drb_calls \cup {CallbackCall(t, frame.epoch, next.drb[1])}
                          /\ storage_add_drb_result_fn = "Ok" => frame.epoch \in drb_storage'
            /\ Stepped(t, "write_drb") =>
                  /\ storage_add_drb_result_fn # "None" =>
                        /\ frame.cb = 1
                        /\ CallbackCall(t, frame.epoch, frame.drb[1]) \in drb_calls
                  /\ UNCHANGED <<drb_calls, drb_storage>>
                  /\ frame.epoch \in randomized'
                  /\ epoch_drbs'[frame.epoch] = frame.drb
                  /\ ReturnsOk(t)

CaughtUp(epoch) == {epoch - 2, epoch - 1, epoch} \subseteq stake_tables

\* One step of the coordinator, as C34 reads it.
C34Step ==
    /\ \A t \in TaskIds :
          LET epoch == Top(tasks[t].stack).epoch
          IN  /\ Stepped(t, "add_root") => epoch - 2 \in stake_tables
              /\ Stepped(t, "root_read") =>
                    /\ epoch - 2 \in stake_tables
                    /\ UNCHANGED <<stake_tables, randomized>>
              /\ Stepped(t, "root_write") =>
                    /\ membership_readers = {}
                    /\ stake_tables' = stake_tables \cup {epoch}
                    /\ Top(tasks'[t].stack).pc = "next_stake"
              /\ Stepped(t, "next_stake") => {epoch - 2, epoch} \subseteq stake_tables
              /\ Stepped(t, "add_drb") => CaughtUp(epoch)
              /\ Stepped(t, "write_drb") =>
                    /\ membership_readers = {}
                    /\ CaughtUp(epoch)
                    /\ randomized' = randomized \cup {epoch}
                    /\ ReturnsOk(t)
    /\ stake_tables' # stake_tables => \E t \in TaskIds : Stepped(t, "root_write")
    /\ randomized' # randomized => \E t \in TaskIds : Stepped(t, "write_drb")

\* The membership lock and the tables, as C34 reads them: a catchup asking for the
\* write lock holds no read guard, and an epoch with a randomized stake table from
\* catchup has its stake table and those of the two epochs before it.
C34State ==
    /\ \A t \in TaskIds :
          tasks[t].pc = "run" /\ Top(tasks[t].stack).pc \in {"root_write", "write_drb"}
              => t \notin membership_readers
    /\ \A epoch \in randomized \ InitialEpochs : epoch >= 2 /\ CaughtUp(epoch)

\* C34: the steps of one catchup(e) come in order: the stake table of e - 2 is there
\* when the root leaf is fetched; add_epoch_root(e) is applied under the write lock,
\* with no read guard out, before the stake table of e - 1 is looked for and before
\* the DRB step; add_drb_result(e) is applied last, under the write lock; so an epoch
\* with a randomized stake table from catchup has the stake tables of e, e - 1, e - 2.
C34StepsOrdered == [](C34State) /\ [][C34Step]_coordVars

\* C34 witness: epoch 4 has its randomized stake table, and the stake tables of
\* epochs 2, 3 and 4 all came from catchup.
C34Witness == 4 \in randomized /\ {2, 3, 4} \subseteq stake_tables /\ drb_results[3] # {}

\* Task t's wait_for_catchup takes a step of its own from `at`.
Waited(t, at) == Running(t, "wait_for_catchup", at) /\ tasks'[t] # tasks[t]

\* Task t's wait_for_catchup(epoch) goes into catchup(epoch) inline.
RunsInline(t, epoch) ==
    /\ tasks'[t].pc = "run"
    /\ Len(tasks'[t].stack) = Len(tasks[t].stack)
    /\ Top(tasks'[t].stack) = CatchupFrame(epoch)

\* One step of the tasks, as C35 reads it.
C35Step ==
    \A t \in TaskIds :
        LET frame == Top(tasks[t].stack)
            epoch == frame.epoch
            entries == { entry \in catchup_map : entry.epoch = epoch }
            sender == tasks[frame.rx]
        IN  /\ Waited(t, "lock") =>
                  IF entries = {}
                  THEN RunsInline(t, epoch)
                  ELSE /\ Len(tasks'[t].stack) = Len(tasks[t].stack)
                       /\ Top(tasks'[t].stack).fn = "wait_for_catchup"
                       /\ Top(tasks'[t].stack).pc = "recv"
                       /\ \E entry \in entries : Top(tasks'[t].stack).rx = entry.tx
            /\ Waited(t, "recv") =>
                  /\ sender.epoch = epoch
                  /\ \/ /\ ReturnsOk(t)
                        /\ sender.result = "Ok"
                        /\ epoch \in randomized
                        /\ frame.rx \in drb_results[epoch]
                     \/ /\ RunsInline(t, epoch)
                        /\ sender.result = "Err" \/ ~frame.early
            /\ (tasks[t].pc = "run" /\ tasks'[t] # tasks[t] /\ frame.fn = "wait_for_catchup")
                  => tasks'[t].result # "Err"
            /\ (/\ tasks[t].pc = "run"
                /\ Len(tasks'[t].stack) < Len(tasks[t].stack)
                /\ tasks'[t].result # "Err") =>
                  /\ epoch \in randomized'
                  /\ drb_results'[epoch] # {}

\* C35: wait_for_catchup(e) without an entry for e goes into catchup(e) inline; with
\* an entry it waits for that task's broadcast, returns Ok when the broadcast carries
\* Ok, and goes into catchup(e) inline when it carries an error or the channel is
\* closed. It never returns an error of its own, and whatever returns Ok for e, the
\* broadcast or the inline catchup, comes after add_drb_result(e) was applied.
C35WaitForCatchup == [][C35Step]_coordVars

\* C35 witness: a wait_for_catchup has its receiver on the channel of a task whose
\* catchup of that epoch applied add_drb_result and broadcast Ok.
C35Witness ==
    \E t \in TaskIds :
        /\ Running(t, "wait_for_catchup", "recv")
        /\ Top(tasks[t].stack).early
        /\ tasks[Top(tasks[t].stack).rx].pc = "done"
        /\ tasks[Top(tasks[t].stack).rx].result = "Ok"
        /\ Top(tasks[t].stack).epoch \in randomized

\* A spawned task that has not come to its end.
Unfinished(t) == tasks[t].pc \in {"start", "run", "send", "remove"}

\* C36: under fair scheduling every spawned catchup task comes to its end, with the
\* success or the failure of its catchup; none waits forever on a broadcast or on the
\* membership lock (as long as the executor has room for the tasks that are spawned).
C36EveryTaskFinishes ==
    [](FreeTasks # {}) =>
        \A t \in TaskIds : Unfinished(t) ~> tasks[t].pc \in {"done", "skipped"}

\* What does hold under the same fairness: the catchup that a task runs returns, so no
\* task waits forever inside catchup or wait_for_catchup; the wait that may never end
\* is the broadcast after it.
EveryCatchupReturns ==
    [](FreeTasks # {}) => \A t \in TaskIds : tasks[t].pc = "run" ~> tasks[t].pc # "run"

(* ---------------------- further properties of tables ------------------- *)

\* The columns of epoch_drb_and_root beside its key.
EpochColumns == {"drb_result", "block_header", "stake"}

\* The value the model's callers write into a column of an epoch's row.
WrittenValue(epoch, column) ==
    IF column = "drb_result" THEN DrbResultOf(epoch)
    ELSE IF column = "block_header" THEN BlockHeaderOf(epoch)
    ELSE StakeOf(epoch)

\* The rows of an epoch in a table.
EpochRows(table, epoch) == { r \in table : r.epoch = epoch }

\* The columns of an epoch in a table, all NULL without a row.
EpochRow(table, epoch) ==
    IF EpochRows(table, epoch) = {} THEN NullRow(epoch)
    ELSE CHOOSE r \in EpochRows(table, epoch) : TRUE

\* One write to epoch_drb_and_root, as C37 reads it.
C37Step ==
    epoch_drb_and_root' # epoch_drb_and_root =>
        \E epoch \in Epochs, column \in EpochColumns :
            LET before == EpochRow(epoch_drb_and_root, epoch)
                after == EpochRow(epoch_drb_and_root', epoch)
            IN  /\ \A other \in Epochs \ {epoch} :
                      EpochRows(epoch_drb_and_root', other)
                          = EpochRows(epoch_drb_and_root, other)
                /\ Cardinality(EpochRows(epoch_drb_and_root', epoch)) = 1
                /\ after[column] = <<WrittenValue(epoch, column)>>
                /\ \A kept \in EpochColumns \ {column} : after[kept] = before[kept]

\* C37: add_drb_result, add_epoch_root and store_stake each write one column of the
\* row of their epoch in epoch_drb_and_root and leave the other two columns of that
\* row and the rows of other epochs as they are, in whatever order they are applied;
\* a row written by all three holds all three values.
C37ColumnsIndependent == [][C37Step]_sideVars

\* C37 witness: the row of an epoch holds the DRB result, the block header and the
\* stake table written for it, next to the row of another epoch that holds one value.
C37Witness ==
    \E epoch \in Epochs, other \in Epochs :
        /\ other # epoch
        /\ EpochRow(epoch_drb_and_root, epoch) =
              [epoch |-> epoch, drb_result |-> <<DrbResultOf(epoch)>>,
               block_header |-> <<BlockHeaderOf(epoch)>>, stake |-> <<StakeOf(epoch)>>]
        /\ EpochRow(epoch_drb_and_root, other) =
              [NullRow(other) EXCEPT !.stake = <<StakeOf(other)>>]

\* The legacy rows of a table that the v2 table holds.
Migrated(table) == { r \in legacy[table] : r.view \in MigratedViews(table) }

\* The tables and markers of the migrations, as C38 reads them.
C38State ==
    \A table \in LegacyTables :
        LET marker == epoch_migration[table]
        IN  /\ \A row \in legacy[table] :
                  row.view < marker.migrated_rows => row \in Migrated(table)
            /\ marker.completed => Migrated(table) = legacy[table]

\* One step of a migration, as C38 reads it.
C38Step ==
    \A table \in LegacyTables :
        /\ epoch_migration'[table].migrated_rows >= epoch_migration[table].migrated_rows
        /\ MigratedViews(table)' # MigratedViews(table) =>
              /\ mig.table = table
              /\ epoch_migration'[table] =
                    [completed |-> FALSE, migrated_rows |-> MaxOf(BatchViews(mig.rows))]
              /\ MigratedViews(table)' = MigratedViews(table) \cup BatchViews(mig.rows)

\* C38: a migration commits a batch and the marker (false, offset of the batch) in
\* one write transaction; so in every state, also after a crash at any point, the
\* legacy rows with a view below the recorded offset are in the v2 table, a completed
\* marker means that all legacy rows are, and the recorded offset never decreases.
C38OffsetCoversMigrated == [](C38State) /\ [][C38Step]_vars

\* C38 witness: a migration was killed after its first batch: the marker is at the
\* view of that batch's last row and not completed, the rows below it are in the v2
\* table, a later legacy row is not.
C38Witness ==
    \E table \in LegacyTables :
        /\ mig = NoMig
        /\ epoch_migration[table] = [completed |-> FALSE, migrated_rows |-> 1]
        /\ \E row \in Migrated(table) : row.view < 1
        /\ legacy[table] \ Migrated(table) # {}

\* Caller p returns from a failed generate_decide_events.
GenerationFailed(p) ==
    Returning(p) /\ pc[p] \in {"read_marker", "collect", "emit", "write"}

\* The tables after prune(view) committed, for some decide view and measured usage.
PruneCommitted ==
    \E view \in DecideViews, usage \in Usages :
        LET cutoff == PruneCutoff(view, gc_opt, usage)
        IN  /\ anchor_leaf2' = PruneRows(anchor_leaf2, cutoff)
            /\ vid_share2' = PruneViews(vid_share2, cutoff)
            /\ da_proposal2' = PruneViews(da_proposal2, cutoff)
            /\ quorum_proposals2' = PruneViews(quorum_proposals2, cutoff)
            /\ quorum_certificate2' = PruneViews(quorum_certificate2, cutoff)
            /\ UNCHANGED <<state_cert, finalized_state_cert, event_stream>>

\* One step of append_decided_leaves, as C39 reads it without its conclusion on the
\* rows of a failed call.
C39Step ==
    /\ \A p \in Procs :
          /\ (pc[p] # "prune" /\ pc'[p] = "prune") =>
                /\ pc[p] = "collect"
                /\ UNCHANGED dbVars
          /\ GenerationFailed(p) => ret'[p] = "Ok" /\ UNCHANGED dbVars
          /\ (Returning(p) /\ pc[p] = "prune") =>
                /\ ret'[p] = "Ok"
                /\ PruneCommitted \/ UNCHANGED dbVars
    /\ ~RowsKept =>
          \E p \in Procs : pc[p] \in {"write", "prune"} /\ pc'[p] \in {"collect", "idle"}

\* C39 as stated: a call whose event generation fails returns success without
\* pruning and has deleted no row; the pruner runs only after the generator
\* returned success, and its failure leaves its deletes unapplied.
C39NoRowDeleted ==
    [][C39Step /\ \A p \in Procs : GenerationFailed(p) => ~gen[p].deleted]_storeVars

\* C39: prune runs only after generate_decide_events returned success; a call whose
\* event generation fails returns Ok from the failure without pruning, and the
\* failure itself deletes nothing (the deletes that earlier rounds of the generator
\* committed in this call stay); a call returns Ok from prune with either the
\* pruning transaction's deletes or, when prune failed, with the tables as they were.
C39PruneAfterGenerator == [][C39Step]_storeVars

\* C39 witness: a call has returned Ok from a failed event generation, with leaves
\* left beyond the marker, and the leaf of a handled event has been deleted.
C39Witness ==
    /\ pc["p1"] = "idle"
    /\ ret["p1"] = "Ok"
    /\ appended.view > event_stream
    /\ \E view \in handled : view \notin RowViews(anchor_leaf2)
====
